---- MODULE Spec2Model ----
(***************************************************************************)
(* cryptoAid: the campaign views built from the on-chain ledger record.    *)
(*                                                                         *)
(* Modelled code:                                                          *)
(*   CampaignDetails / fetchCampaign      (detail page, 3-value status)    *)
(*   Campaigns / fetchSingleCampaign, fetchAllCampaigns   (list page)      *)
(*   pinataService / fetchMetadataBatch and its lookups (by id, by uri)    *)
(*   POST /api/upload-metadata, GET /api/fetch-metadata   (the gateway)    *)
(*                                                                         *)
(* Amounts are wei (naturals).  formatEther is exact, so the display       *)
(* string it returns is identified with the wei amount it denotes;         *)
(* Number(<display string>) is the lossy step: it yields the nearest       *)
(* double, modelled by rounding to SigBits significant bits (ties to       *)
(* even), SigBits standing for the 53 bits of a double.                    *)
(***************************************************************************)
EXTENDS Integers, Sequences, FiniteSets, TLC

(* ------------------------------ bounds -------------------------------- *)

MaxWei == 5        \* largest amount (goal, raised) held by the ledger
MaxTime == 2       \* the clock runs over 0..MaxTime, deadlines over 1..MaxTime
MaxDonors == 2     \* donations accepted by the ledger in one behaviour
SigBits == 2        \* significand width of the modelled float
MaxBatch == 2       \* entries in one fetchMetadataBatch argument
MaxPins == 2        \* records pinned at the content store
MaxCampaigns == 3   \* campaigns the list page reads
MaxCalls == 2       \* calls of fetchMetadataBatch
MaxLoads == 2       \* fetchCampaign calls the details page starts

(* --------------------------- number helpers --------------------------- *)

RECURSIVE Pow2(_)
Pow2(n) == IF n = 0 THEN 1 ELSE 2 * Pow2(n - 1)

RECURSIVE BitLength(_)
BitLength(x) == IF x = 0 THEN 0 ELSE 1 + BitLength(x \div 2)

(* formatEther(wei): the exact decimal string of wei / 10^18. *)
FormatEther(wei) == [ether |-> wei]

(* Number(s) for a string produced by formatEther: the nearest float,     *)
(* round-half-to-even on the bits below the significand.                  *)
NumberOf(s) ==
    LET x == s.ether
        shift == BitLength(x) - SigBits
    IN  IF shift <= 0
        THEN x
        ELSE LET q == x \div Pow2(shift)
                 r == x % Pow2(shift)
                 half == Pow2(shift - 1)
                 up == r > half \/ (r = half /\ q % 2 = 1)
             IN  (IF up THEN q + 1 ELSE q) * Pow2(shift)

(* Fractions num/den for the float results of / and *.  A quotient of two *)
(* floats a < b is below 1 and its product with 100 is below 100, so the  *)
(* exact fraction compares with 0 and 100 as the float does; den = 0      *)
(* stands for the NaN or Infinity of a division by zero.                  *)
Frac(n, d) == [num |-> n, den |-> d]
FracLeq(a, b) == a.num * b.den <= b.num * a.den
FracEq(a, b) == a.num * b.den = b.num * a.den
FracMin(a, b) == IF FracLeq(a, b) THEN a ELSE b

FracTimes(a, k) == Frac(a.num * k, a.den)

(* ------------------------------ values -------------------------------- *)

Undefined == -1                 \* a field the ledger record does not carry
Truthy(x) == x # Undefined /\ x # 0

Titles == {"", "Reef"}
Descriptions == {"", "Help"}
Messages == {"", "call failed"}   \* err.message of a rejected call
Creator == "0xC0"
DefaultDetailError == "Failed to load campaign details"
DefaultListError == "Failed to load campaigns. Please try again later."

(* The metadata record the content store holds for the campaign. *)
PinnedMetadata ==
    [campaignId |-> 0, title |-> "Reef (ipfs)", description |-> "Help (ipfs)",
     imageUrl |-> "ipfs://img", videoUrl |-> "ipfs://vid"]

(* ---------------------------- derivations ----------------------------- *)

(* onChainData.raised || onChainData.raisedAmount || BigInt(0) *)
RaisedValue(d) ==
    IF Truthy(d.raised) THEN d.raised
    ELSE IF Truthy(d.raisedAmount) THEN d.raisedAmount
    ELSE 0

FallbackMetadataNoPlaceholder(d) ==
    [title |-> d.title, description |-> d.description,
     imageUrl |-> "", videoUrl |-> ""]

(* let metadata = { title: onChainData.title || "Untitled Campaign", ... } *)
FallbackMetadata(d) ==
    [title |-> IF d.title # "" THEN d.title ELSE "Untitled Campaign",
     description |-> IF d.description # "" THEN d.description
                     ELSE "No description available",
     imageUrl |-> "",
     videoUrl |-> ""]

(* const isExpired = now >= deadline *)
IsExpired(t, deadline) == t >= deadline

GoalReachedStrict(raised, goal) == NumberOf(raised) > NumberOf(goal)

(* const goalReached = Number(raised) >= Number(goal) *)
GoalReached(raised, goal) == NumberOf(raised) >= NumberOf(goal)

ProgressUnclamped(raised, goal) ==
    IF NumberOf(goal) > 0
    THEN FracTimes(Frac(NumberOf(raised), NumberOf(goal)), 100)
    ELSE Frac(0, 1)

(* Number(goal) > 0 ? Math.min((Number(raised) / Number(goal)) * 100, 100) : 0 *)
Progress(raised, goal) ==
    IF NumberOf(goal) > 0
    THEN FracMin(FracTimes(Frac(NumberOf(raised), NumberOf(goal)), 100),
                 Frac(100, 1))
    ELSE Frac(0, 1)

(* let status = "ACTIVE"; if (goalReached) ...; else if (isExpired) ... *)
DetailStatus(goalReached, isExpired) ==
    IF goalReached THEN "SUCCESSFUL"
    ELSE IF isExpired THEN "ENDED"
    ELSE "ACTIVE"

DetailIsActiveExpiryOnly(goalReached, isExpired) == ~isExpired

(* isActive: !isExpired && !goalReached *)
DetailIsActive(goalReached, isExpired) == ~isExpired /\ ~goalReached

(* status: isExpired ? "ENDED" : "ACTIVE"   (list page) *)
ListStatus(isExpired) == IF isExpired THEN "ENDED" ELSE "ACTIVE"

(* isActive: !isExpired   (list page) *)
ListIsActive(isExpired) == ~isExpired

(* The object passed to setCampaign. *)
DetailView(campaignId, d, t, donors) ==
    LET metadata == FallbackMetadata(d)
        goal == FormatEther(d.goal)
        raised == FormatEther(RaisedValue(d))
        deadline == d.deadline
        isExpired == IsExpired(t, deadline)
        goalReached == GoalReached(raised, goal)
    IN  [id |-> campaignId,
         creator |-> d.creator,
         title |-> metadata.title,
         description |-> metadata.description,
         imageUrl |-> metadata.imageUrl,
         videoUrl |-> metadata.videoUrl,
         goal |-> goal,
         raised |-> raised,
         deadline |-> deadline,
         donorCount |-> donors,
         isActive |-> DetailIsActive(goalReached, isExpired),
         status |-> DetailStatus(goalReached, isExpired),
         progress |-> Progress(raised, goal)]

(* The object returned by fetchSingleCampaign. *)
ListView(campaignId, d, t) ==
    LET isExpired == IsExpired(t, d.deadline)
    IN  [id |-> campaignId,
         title |-> d.title,
         description |-> d.description,
         goal |-> FormatEther(d.goal),
         raised |-> FormatEther(d.raisedAmount),
         deadline |-> d.deadline,
         isActive |-> ListIsActive(isExpired),
         status |-> ListStatus(isExpired)]

(* err.message || <default> *)
ErrorText(msg, default) == IF msg # "" THEN msg ELSE default

(* ------------------------------- state -------------------------------- *)

VARIABLES
    ledger,         \* the campaigns the contract holds, by id + 1: <<>> or <<record>>
    donorCount,     \* what getDonorCount(0) returns
    now,            \* wall clock, Math.floor(Date.now() / 1000)
    metadataStore,  \* the content store's record for campaign 0: <<>> or <<metadata>>
    storeReads,     \* metadata lookups issued by the pages so far
    page,           \* the mounted page: "details" or "campaigns"
    pc,             \* fetchCampaign's position
    frame,          \* fetchCampaign's locals: <<>> or <<[onChainData, now]>>
    campaign,       \* useState<CampaignData | null>: <<>> or <<view>>
    loading,        \* useState(true)
    error,          \* useState<string | null>: <<>> or <<message>>
    failedAt,       \* the call of fetchCampaign that was rejected, "none" if none
    listPc,         \* fetchAllCampaigns' position
    listFrame,      \* fetchSingleCampaign's locals: <<>> or <<[onChainData, now]>>
    campaigns,      \* useState<CampaignView[]>([])
    listLoading,    \* useState(true)
    listError,      \* useState<string | null>: <<>> or <<message>>
    pins,           \* the records pinned at the content store, oldest first
    variant,        \* the pinataService in use: "byId" or "byAddress"
    batchPc,        \* fetchMetadataBatch's position
    input,          \* the entries of the call's argument, in iteration order
    fetches,        \* per entry: the lookup the call started for it
    maps,           \* the Map objects the calls created, in order of creation
    results,        \* const results: the Map object of the current call (index in maps)
    completed,      \* the entries whose completion was processed, in that order
    calls,          \* calls of fetchMetadataBatch so far
    pinsAtStart,    \* Len(pins) when the current call started
    prevCall,       \* the call before the current one: <<>> or <<summary>>
    PINATA_JWT,     \* process.env.PINATA_JWT is set
    handler,        \* the route handler (POST or GET) and the request it serves
    response,       \* the handler's NextResponse: <<>> or <<response>>
    client,         \* the pinataService call in flight at the browser
    listing,        \* fetchAllCampaigns' total and requests, one per campaign id
    form,           \* the campaign creation page: its fields, flags and position
    donation,       \* the details page's donation: its fields, flags and position
    loads           \* the details page's route parameter and the fetchCampaign calls started

ledgerVars == <<ledger, donorCount, now, metadataStore, storeReads>>
detailVars == <<pc, frame, campaign, loading, error, failedAt>>
listVars == <<listPc, listFrame, campaigns, listLoading, listError>>
batchVars == <<variant, batchPc, input, fetches, maps, results, completed, calls,
               pinsAtStart, prevCall>>
gatewayVars == <<PINATA_JWT, handler, response>>
clientVars == <<client>>
serviceVars == <<pins, batchVars, gatewayVars, clientVars>>
viewVars == <<donation, loads>>
appVars == <<listing, form, viewVars>>
pageVars == <<ledgerVars, page, detailVars, listVars, appVars>>
vars == <<pageVars, serviceVars>>

(* The route parameter of the details page. *)
CampaignId == 0

(* CampaignDetails as mounted (position p = "effect") or not mounted:     *)
(* the useState initial values.                                           *)
DetailInitial(p) ==
    /\ pc = p
    /\ frame = <<>>
    /\ campaign = <<>>
    /\ loading = TRUE
    /\ error = <<>>
    /\ failedAt = "none"

DetailReset(p) ==
    /\ pc' = p
    /\ frame' = <<>>
    /\ campaign' = <<>>
    /\ loading' = TRUE
    /\ error' = <<>>
    /\ failedAt' = "none"

(* Campaigns as mounted or not mounted: the useState initial values. *)
ListInitial(p) ==
    /\ listPc = p
    /\ listFrame = <<>>
    /\ campaigns = <<>>
    /\ listLoading = TRUE
    /\ listError = <<>>

ListReset(p) ==
    /\ listPc' = p
    /\ listFrame' = <<>>
    /\ campaigns' = <<>>
    /\ listLoading' = TRUE
    /\ listError' = <<>>

(* ------------------------- pinataService values ----------------------- *)

BatchIds == {"0", "1"}          \* the campaign ids handed to the service

(* "ipfs://" + hash; a pin's hash is its position in pins. *)
IpfsUri(hash) == [scheme |-> "ipfs://", hash |-> hash]

(* ipfsUri.replace("ipfs://", "") *)
StripScheme(uri) == [uri EXCEPT !.scheme = ""]

(* What a lookup request came back with: the record (a pin), a 404, or a  *)
(* rejected or non-ok call.                                               *)
NoResponse == [kind |-> "none", pin |-> 0]
Found(k) == [kind |-> "ok", pin |-> k]
NotFound == [kind |-> "notFound", pin |-> 0]
Failed == [kind |-> "error", pin |-> 0]

(* new Map(), and Map.prototype.set: the key's entry is added or replaced. *)
EmptyMap == [k \in {} |-> <<>>]
MapSetReplacing(map, key, value) == [k \in {key} |-> value]
MapSetKeepFirst(map, key, value) ==
    IF DOMAIN map = {} THEN [k \in {key} |-> value] ELSE map
MapSet(map, key, value) ==
    [k \in DOMAIN map \cup {key} |-> IF k = key THEN value ELSE map[k]]

(* A field the request does not carry, and JavaScript's !x on a string. *)
Missing == "<undefined>"
Falsy(x) == x \in {Missing, ""}

(* The request a handler serves: the JSON body of a POST (an object, the  *)
(* value null, or text that is not JSON), or the query of a GET.          *)
NoRequest ==
    [shape |-> "none", campaignId |-> Missing, title |-> Missing,
     createdAt |-> Undefined]

(* No request has arrived. *)
HandlerIdle ==
    [method |-> "none", pc |-> "idle", request |-> NoRequest,
     metadata |-> <<>>, hash |-> 0, storeCalls |-> 0, storeResults |-> <<>>,
     pinsBefore |-> 0, receivedAt |-> 0]

GatewayIdle ==
    /\ handler = HandlerIdle
    /\ response = <<>>

(* No pinataService call has been made. *)
NoCall ==
    [fn |-> "none", pc |-> "idle", arg |-> NoRequest, requested |-> <<>>,
     delivered |-> <<>>, outcome |-> <<>>]

ClientIdle == client = NoCall

(* fetchAllCampaigns has not read the campaign count. *)
NoListing == [total |-> <<>>, requests |-> <<>>, settled |-> <<>>]

(* The creation page is not mounted. *)
FormUnmounted == [pc |-> "unmounted"]
DonationUnmounted == [pc |-> "unmounted"]
NoLoads == [campaignId |-> <<>>, started |-> <<>>]
ViewIdle == donation = DonationUnmounted /\ loads = NoLoads

AppIdle == listing = NoListing /\ form = FormUnmounted /\ ViewIdle

(* fetchMetadataBatch before its first call. *)
BatchIdle ==
    /\ batchPc = "idle"
    /\ input = <<>>
    /\ fetches = <<>>
    /\ maps = <<>>
    /\ results = 0
    /\ completed = <<>>
    /\ calls = 0
    /\ pinsAtStart = 0
    /\ prevCall = <<>>

Init ==
    /\ pins = <<>>
    /\ variant = "byId"
    /\ BatchIdle
    /\ PINATA_JWT = TRUE
    /\ GatewayIdle
    /\ ClientIdle
    /\ AppIdle
    /\ ledger = <<>>
    /\ donorCount = 0
    /\ now = 0
    /\ metadataStore = <<>>
    /\ storeReads = 0
    /\ page \in {"details", "campaigns"}
    /\ IF page = "details"
       THEN DetailInitial("effect") /\ ListInitial("unmounted")
       ELSE DetailInitial("unmounted") /\ ListInitial("effect")

(* ------------------------- ledger and store --------------------------- *)

(* The contract's createCampaign: the record is created once. *)
CreateCampaign(title, description, goal, deadline) ==
    /\ ledger = <<>>
    /\ deadline > now
    /\ ledger' = <<[creator |-> Creator, title |-> title,
                    description |-> description, goal |-> goal,
                    raised |-> Undefined, raisedAmount |-> 0,
                    deadline |-> deadline]>>
    /\ UNCHANGED <<donorCount, now, metadataStore, storeReads, serviceVars, appVars,
                   page,
                   detailVars, listVars>>

(* The contract's donate: raisedAmount and the donor count only grow. *)
Donate(amount) ==
    /\ Len(ledger) = 1
    /\ donorCount < MaxDonors
    /\ ledger[1].raisedAmount + amount <= MaxWei
    /\ ledger' = <<[ledger[1] EXCEPT !.raisedAmount = @ + amount]>>
    /\ donorCount' = donorCount + 1
    /\ UNCHANGED <<now, metadataStore, storeReads, serviceVars, appVars,
                   page, detailVars, listVars>>

Tick ==
    /\ now < MaxTime
    /\ now' = now + 1
    /\ UNCHANGED <<ledger, donorCount, metadataStore, storeReads, serviceVars, appVars,
                   page,
                   detailVars, listVars>>

(* POST /api/upload-metadata pins the campaign's metadata record. *)
PinMetadata ==
    /\ Len(ledger) = 1
    /\ metadataStore = <<>>
    /\ metadataStore' = <<PinnedMetadata>>
    /\ UNCHANGED <<ledger, donorCount, now, storeReads, serviceVars, appVars,
                   page, detailVars,
                   listVars>>

(* ---------------------------- details page ---------------------------- *)

(* catch (err) { setError(err.message || ...) } finally { setLoading(false) } *)
DetailCatch(site, msg) ==
    /\ error' = <<ErrorText(msg, DefaultDetailError)>>
    /\ loading' = FALSE
    /\ failedAt' = site
    /\ pc' = "done"
    /\ UNCHANGED <<frame, campaign>>

(* useEffect: fetchCampaign() up to its first await. *)
FetchCampaign ==
    /\ page = "details"
    /\ pc = "effect"
    /\ loading' = TRUE
    /\ error' = <<>>
    /\ pc' = "getReadOnlyContract"
    /\ UNCHANGED <<ledgerVars, serviceVars, appVars, page, frame, campaign, failedAt, listVars>>

GetReadOnlyContractResolved ==
    /\ pc = "getReadOnlyContract"
    /\ pc' = "getCampaign"
    /\ UNCHANGED <<ledgerVars, serviceVars, appVars, page, frame, campaign, loading, error,
                   failedAt, listVars>>

GetReadOnlyContractRejected(msg) ==
    /\ pc = "getReadOnlyContract"
    /\ DetailCatch("getReadOnlyContract", msg)
    /\ UNCHANGED <<ledgerVars, serviceVars, appVars, page, listVars>>

(* contract.getCampaign resolves; the code runs on to await getDonorCount. *)
GetCampaignResolved ==
    /\ pc = "getCampaign"
    /\ CampaignId < Len(ledger)
    /\ frame' = <<[onChainData |-> ledger[CampaignId + 1], now |-> now]>>
    /\ pc' = "getDonorCount"
    /\ UNCHANGED <<ledgerVars, serviceVars, appVars, page, campaign, loading, error, failedAt,
                   listVars>>

(* The rejected read swallowed and replaced by an empty record. *)
GetCampaignRejectedDefaulted(msg) ==
    /\ pc = "getCampaign"
    /\ frame' = <<[onChainData |->
                      [creator |-> "", title |-> "", description |-> "",
                       goal |-> 0, raised |-> Undefined, raisedAmount |-> 0,
                       deadline |-> 0],
                   now |-> now]>>
    /\ failedAt' = "getCampaign"
    /\ pc' = "getDonorCount"
    /\ UNCHANGED <<ledgerVars, serviceVars, appVars, page, campaign, loading, error, listVars>>

GetCampaignRejected(msg) ==
    /\ pc = "getCampaign"
    /\ DetailCatch("getCampaign", msg)
    /\ UNCHANGED <<ledgerVars, serviceVars, appVars, page, listVars>>

(* The view derived with the clock read again after the awaited read. *)
GetDonorCountResolvedReadingClock ==
    /\ pc = "getDonorCount"
    /\ campaign' = <<DetailView(CampaignId, frame[1].onChainData,
                                now, donorCount)>>
    /\ loading' = FALSE
    /\ pc' = "done"
    /\ UNCHANGED <<ledgerVars, serviceVars, appVars, page, frame, error, failedAt, listVars>>

(* contract.getDonorCount resolves; the view is built and published. *)
GetDonorCountResolved ==
    /\ pc = "getDonorCount"
    /\ campaign' = <<DetailView(CampaignId, frame[1].onChainData,
                                frame[1].now, donorCount)>>
    /\ loading' = FALSE
    /\ pc' = "done"
    /\ UNCHANGED <<ledgerVars, serviceVars, appVars, page, frame, error, failedAt, listVars>>

GetDonorCountRejected(msg) ==
    /\ pc = "getDonorCount"
    /\ DetailCatch("getDonorCount", msg)
    /\ UNCHANGED <<ledgerVars, serviceVars, appVars, page, listVars>>

(* ----------------------------- list page ------------------------------ *)

(* catch (err) { setError(err?.message || ...) } finally { setLoading(false) } *)
ListCatch(msg) ==
    /\ listError' = <<ErrorText(msg, DefaultListError)>>
    /\ listLoading' = FALSE
    /\ listPc' = "done"
    /\ UNCHANGED <<listFrame, campaigns>>

(* useEffect: fetchAllCampaigns() up to its first await. *)
FetchAllCampaigns ==
    /\ page = "campaigns"
    /\ listPc = "effect"
    /\ listLoading' = TRUE
    /\ listError' = <<>>
    /\ listPc' = "getReadOnlyContract"
    /\ UNCHANGED <<ledgerVars, serviceVars, appVars, page, detailVars, listFrame, campaigns>>

ListContractResolved ==
    /\ listPc = "getReadOnlyContract"
    /\ listPc' = "campaignCount"
    /\ UNCHANGED <<ledgerVars, serviceVars, appVars, page, detailVars, listFrame, campaigns,
                   listLoading, listError>>

ListContractRejected(msg) ==
    /\ listPc = "getReadOnlyContract"
    /\ ListCatch(msg)
    /\ UNCHANGED <<ledgerVars, serviceVars, appVars, page, detailVars>>

(* campaignCount resolves: no campaigns, or one request per id is started. *)
CampaignCountResolved ==
    /\ listPc = "campaignCount"
    /\ IF Len(ledger) = 0
       THEN /\ campaigns' = <<>>
            /\ listLoading' = FALSE
            /\ listPc' = "done"
       ELSE /\ listPc' = "getCampaign"
            /\ UNCHANGED <<campaigns, listLoading>>
    /\ UNCHANGED <<ledgerVars, serviceVars, appVars, page, detailVars, listFrame, listError>>

CampaignCountRejected(msg) ==
    /\ listPc = "campaignCount"
    /\ ListCatch(msg)
    /\ UNCHANGED <<ledgerVars, serviceVars, appVars, page, detailVars>>

(* The list read that also pins a record for the campaign it has read. *)
FetchSingleCampaignResolvedBackfilling ==
    /\ listPc = "getCampaign"
    /\ Len(ledger) = 1
    /\ listFrame' = <<[onChainData |-> ledger[1], now |-> now]>>
    /\ campaigns' = <<ListView(0, ledger[1], now)>>
    /\ listLoading' = FALSE
    /\ listPc' = "done"
    /\ metadataStore' = <<PinnedMetadata>>
    /\ UNCHANGED <<ledger, donorCount, now, storeReads, serviceVars, appVars, page,
                   detailVars, listError>>

(* fetchSingleCampaign(contract, 0) returns its view; Promise.all resolves. *)
FetchSingleCampaignResolved ==
    /\ listPc = "getCampaign"
    /\ Len(ledger) = 1
    /\ listFrame' = <<[onChainData |-> ledger[1], now |-> now]>>
    /\ campaigns' = <<ListView(0, ledger[1], now)>>
    /\ listLoading' = FALSE
    /\ listPc' = "done"
    /\ UNCHANGED <<ledgerVars, serviceVars, appVars, page, detailVars, listError>>

(* fetchSingleCampaign catches the rejected read and returns null. *)
FetchSingleCampaignRejected ==
    /\ listPc = "getCampaign"
    /\ campaigns' = <<>>
    /\ listLoading' = FALSE
    /\ listPc' = "done"
    /\ UNCHANGED <<ledgerVars, serviceVars, appVars, page, detailVars, listFrame, listError>>

(* ---------------------------- navigation ------------------------------ *)

(* The router mounts the other page; the page left behind is unmounted. *)
Navigate ==
    /\ page' = IF page = "details" THEN "campaigns" ELSE "details"
    /\ IF page = "campaigns"
       THEN DetailReset("effect") /\ ListReset("unmounted")
       ELSE DetailReset("unmounted") /\ ListReset("effect")
    /\ UNCHANGED <<ledgerVars, serviceVars, appVars>>

Next ==
    \/ \E t \in Titles, d \in Descriptions, g \in 0..MaxWei, dl \in 1..MaxTime :
           CreateCampaign(t, d, g, dl)
    \/ \E a \in 1..MaxWei : Donate(a)
    \/ Tick
    \/ PinMetadata
    \/ FetchCampaign
    \/ GetReadOnlyContractResolved
    \/ \E m \in Messages : GetReadOnlyContractRejected(m)
    \/ GetCampaignResolved
    \/ \E m \in Messages : GetCampaignRejected(m)
    \/ GetDonorCountResolved
    \/ \E m \in Messages : GetDonorCountRejected(m)
    \/ FetchAllCampaigns
    \/ ListContractResolved
    \/ \E m \in Messages : ListContractRejected(m)
    \/ CampaignCountResolved
    \/ \E m \in Messages : CampaignCountRejected(m)
    \/ FetchSingleCampaignResolved
    \/ FetchSingleCampaignRejected
    \/ Navigate

Spec == Init /\ [][Next]_vars

(* ====================================================================== *)
(* pinataService: fetchMetadataBatch and the lookups it starts            *)
(* ====================================================================== *)

SeqsUpTo(S, n) == UNION {[1..k -> S] : k \in 0..n}

(* campaignIds: string[]  (an id may repeat; an entry carries no uri). *)
ByIdInputs ==
    SeqsUpTo([id : BatchIds, uri : {StripScheme(IpfsUri(0))}], MaxBatch)

(* ipfsUris: Map<string, string>  (one uri per id, in insertion order). *)
ByAddressInputs ==
    {inp \in SeqsUpTo([id : BatchIds, uri : {IpfsUri(h) : h \in 1..MaxPins}],
                      MaxBatch) :
        \A i, j \in DOMAIN inp : inp[i].id = inp[j].id => i = j}

Inputs == IF variant = "byId" THEN ByIdInputs ELSE ByAddressInputs

(* The pins whose keyvalues.campaignId is id; rows[0] of the pin list is  *)
(* the most recently pinned of them.                                      *)
PinsOf(id) == {k \in 1..Len(pins) : pins[k].campaignId = id}
Newest(S) == CHOOSE k \in S : \A j \in S : j <= k

(* GET /api/fetch-metadata?campaignId=id as the service sees it: the      *)
(* record, a 404 when no pin carries the id, or a failed or timed-out     *)
(* request.                                                               *)
ByIdResponses(id) ==
    (IF PinsOf(id) = {} THEN {NotFound} ELSE {Found(Newest(PinsOf(id)))})
        \cup {Failed}

(* axios.get(gateway + hash, {timeout: 10000}) *)
ByAddressResponses(uri) ==
    LET hash == StripScheme(uri).hash
    IN  (IF hash \in 1..Len(pins) THEN {Found(hash)} ELSE {NotFound})
            \cup {Failed}

Responses(entry) ==
    IF variant = "byId" THEN ByIdResponses(entry.id)
    ELSE ByAddressResponses(entry.uri)

(* fetchMetadataByCampaignId: null on 404, null on any other failure      *)
(* (its own catch), the record otherwise; it never throws.                *)
FetchMetadataByCampaignId(resp) ==
    [threw |-> FALSE,
     value |-> IF resp.kind = "ok" THEN <<resp.pin>> ELSE <<>>]

(* fetchMetadataFromIPFS: the record, or throws "Failed to fetch          *)
(* metadata from IPFS" on any failure.                                    *)
GenericFetchError == "Failed to fetch metadata from IPFS"
FetchMetadataFromIPFS(resp) ==
    IF resp.kind = "ok"
    THEN [threw |-> FALSE, message |-> "", value |-> <<resp.pin>>]
    ELSE [threw |-> TRUE, message |-> GenericFetchError, value |-> <<>>]

Lookup(resp) ==
    IF variant = "byId" THEN FetchMetadataByCampaignId(resp)
    ELSE FetchMetadataFromIPFS(resp)

(* The callback with the null test left out. *)
EntryCallbackByIdUnchecked(map, id, out) ==
    IF out.threw THEN map ELSE MapSet(map, id, out.value)

(* try { const metadata = await fetchMetadataByCampaignId(id);            *)
(*       if (metadata) results.set(id, metadata) } catch { warn }         *)
EntryCallbackById(map, id, out) ==
    IF out.threw THEN map
    ELSE IF out.value # <<>> THEN MapSet(map, id, out.value)
    ELSE map

(* try { const metadata = await fetchMetadataFromIPFS(uri);               *)
(*       results.set(campaignId, metadata) } catch { warn }               *)
EntryCallbackByAddress(map, id, out) ==
    IF out.threw THEN map ELSE MapSet(map, id, out.value)

EntryCallback(map, id, out) ==
    IF variant = "byId" THEN EntryCallbackById(map, id, out)
    ELSE EntryCallbackByAddress(map, id, out)

(* The promise of an entry's callback: the try/catch spans its whole      *)
(* body, so it is fulfilled whether or not the lookup threw.              *)
CallbackPromise(out) == "fulfilled"

(* At most one lookup in flight at a time. *)
DispatchCapped(n) == IF n = 0 THEN {} ELSE {1}

(* campaignIds.map(async ...) / Array.from(entries()).map(async ...):     *)
(* every callback runs up to its await before map returns.                *)
Dispatch(n) == 1..n

(* Some promise has settled. *)
AnySettled(fs) == fs = <<>> \/ \E i \in DOMAIN fs : fs[i].state = "settled"

(* await Promise.allSettled(promises) *)
AllSettled(fs) == \A i \in DOMAIN fs : fs[i].state = "settled"

(* Promise.allSettled resolves whatever the promises' outcomes. *)
Aggregate(fs) == "returned"

(* A module-level Map kept from call to call. *)
ReusedMap(heap) == IF heap = <<>> THEN <<EmptyMap>> ELSE heap

(* const results = new Map<string, CampaignMetadata>() *)
NewMap(heap) == Append(heap, EmptyMap)

(* What is kept of a call that returned. *)
CallSummary ==
    [input |-> input,
     responses |-> [i \in DOMAIN fetches |-> fetches[i].response],
     returned |-> results,
     pinsAtStart |-> pinsAtStart]

(* fetchMetadataBatch(...) up to its await: the Map is created and one    *)
(* lookup per entry is started.                                           *)
StartBatch(inp) ==
    /\ batchPc \in {"idle", "returned"}
    /\ inp \in Inputs
    /\ calls < MaxCalls
    /\ prevCall' = IF batchPc = "returned" THEN <<CallSummary>> ELSE <<>>
    /\ maps' = NewMap(maps)
    /\ results' = Len(maps')
    /\ input' = inp
    /\ fetches' = [i \in DOMAIN inp |->
                     IF i \in Dispatch(Len(inp))
                     THEN [state |-> "pending", response |-> NoResponse,
                           requests |-> 1, promise |-> "pending"]
                     ELSE [state |-> "unstarted", response |-> NoResponse,
                           requests |-> 0, promise |-> "pending"]]
    /\ completed' = <<>>
    /\ batchPc' = "awaiting"
    /\ calls' = calls + 1
    /\ pinsAtStart' = Len(pins)
    /\ UNCHANGED <<pageVars, gatewayVars, clientVars, pins,
                   variant>>

(* A failed request is issued again. *)
LookupRespondsRetrying(i, resp) ==
    /\ i \in DOMAIN fetches
    /\ fetches[i].state = "pending"
    /\ resp \in Responses(input[i])
    /\ fetches' = IF resp.kind = "error" /\ fetches[i].requests < 2
                  THEN [fetches EXCEPT ![i].requests = @ + 1]
                  ELSE [fetches EXCEPT ![i].state = "responded",
                                       ![i].response = resp]
    /\ UNCHANGED <<pageVars, gatewayVars, clientVars, pins,
                   variant, batchPc, input, maps, results,
                   completed, calls, pinsAtStart, prevCall>>

(* The request of entry i comes back, fails or times out. *)
LookupResponds(i, resp) ==
    /\ i \in DOMAIN fetches
    /\ fetches[i].state = "pending"
    /\ resp \in Responses(input[i])
    /\ fetches' = [fetches EXCEPT ![i].state = "responded",
                                  ![i].response = resp]
    /\ UNCHANGED <<pageVars, gatewayVars, clientVars, pins,
                   variant, batchPc, input, maps, results,
                   completed, calls, pinsAtStart, prevCall>>

(* The callback of entry i resumes after its await and runs to its end. *)
LookupCompletes(i) ==
    /\ i \in DOMAIN fetches
    /\ fetches[i].state = "responded"
    /\ LET out == Lookup(fetches[i].response)
       IN  /\ maps' = [maps EXCEPT
                          ![results] = EntryCallback(@, input[i].id, out)]
           /\ fetches' = [fetches EXCEPT ![i].state = "settled",
                                         ![i].promise = CallbackPromise(out)]
    /\ completed' = Append(completed, i)
    /\ UNCHANGED <<pageVars, gatewayVars, clientVars, pins,
                   variant, batchPc, input, results, calls,
                   pinsAtStart, prevCall>>

(* The await ends; return results. *)
ReturnBatch ==
    /\ batchPc = "awaiting"
    /\ AllSettled(fetches)
    /\ batchPc' = Aggregate(fetches)
    /\ UNCHANGED <<pageVars, gatewayVars, clientVars, pins,
                   variant, input, fetches, maps, results,
                   completed, calls, pinsAtStart, prevCall>>

(* A record for campaign id is pinned while the service runs. *)
StorePin(id) ==
    /\ Len(pins) < MaxPins
    /\ pins' = Append(pins, [campaignId |-> id, title |-> "Reef",
                             createdAt |-> now])
    /\ UNCHANGED <<pageVars, batchVars, gatewayVars, clientVars>>

(* No page is mounted. *)
PagesIdle ==
    /\ ledger = <<>>
    /\ donorCount = 0
    /\ now = 0
    /\ metadataStore = <<>>
    /\ storeReads = 0
    /\ page = "details"
    /\ DetailInitial("unmounted")
    /\ ListInitial("unmounted")
    /\ AppIdle

InitBatch ==
    /\ PagesIdle
    /\ pins = <<>>
    /\ variant \in {"byId", "byAddress"}
    /\ BatchIdle
    /\ PINATA_JWT = TRUE
    /\ GatewayIdle
    /\ ClientIdle

NextBatch ==
    \/ \E inp \in ByIdInputs \cup ByAddressInputs : StartBatch(inp)
    \/ \E i \in 1..MaxBatch, resp \in {NotFound, Failed} \cup
                                      {Found(k) : k \in 1..MaxPins} :
           LookupResponds(i, resp)
    \/ \E i \in 1..MaxBatch : LookupCompletes(i)
    \/ ReturnBatch
    \/ \E id \in BatchIds : StorePin(id)

SpecBatch == InitBatch /\ [][NextBatch]_vars

(* ====================================================================== *)
(* The gateway: POST /api/upload-metadata and GET /api/fetch-metadata     *)
(* ====================================================================== *)

CampaignIdValues == {Missing, ""} \cup BatchIds
TitleValues == {Missing, "", "Reef"}
CreatedAtValues == {Undefined} \cup 0..MaxTime

(* What req.json() is asked to parse. *)
NullBody == [NoRequest EXCEPT !.shape = "null"]
MalformedBody == [NoRequest EXCEPT !.shape = "malformed"]
Bodies ==
    [shape : {"object"}, campaignId : CampaignIdValues, title : TitleValues,
     createdAt : CreatedAtValues] \cup {NullBody, MalformedBody}

(* searchParams.get("campaignId") *)
Query(id) == [NoRequest EXCEPT !.shape = "query", !.campaignId = id]

(* await req.json() throws on text that is not JSON; body.campaignId      *)
(* throws on the value null.                                              *)
ReadingBodyThrows(body) == body.shape \in {"malformed", "null"}

(* !body.campaignId || !body.title *)
RequiredFieldsMissing(body) == Falsy(body.campaignId) \/ Falsy(body.title)

(* { createdAt: Date.now(), ...body } *)
StampKeepingPayload(body, t) ==
    [campaignId |-> body.campaignId, title |-> body.title,
     createdAt |-> IF body.createdAt # Undefined THEN body.createdAt ELSE t]

(* const metadata = { ...body, createdAt: Date.now() } *)
Stamp(body, t) ==
    [campaignId |-> body.campaignId, title |-> body.title, createdAt |-> t]

(* NextResponse.json({ error }, { status }) *)
ErrorReply(status, message) ==
    [status |-> status, error |-> message, details |-> "", ipfsHash |-> 0,
     ipfsUri |-> StripScheme(IpfsUri(0)), metadata |-> <<>>]

(* error.response?.data?.error || error.message of what the catch caught. *)
BodyFailureDetail == "Unexpected end of JSON input"
StoreFailureDetail == "timeout of 30000ms exceeded"

(* NextResponse.json({ error, details }, { status: 500 }) *)
CaughtReply(message, detail) ==
    [ErrorReply(500, message) EXCEPT !.details = detail]

(* NextResponse.json({ success: true, ipfsHash, ipfsUri, metadata? }) *)
SuccessReply(hash, metadata) ==
    [status |-> 200, error |-> "", details |-> "", ipfsHash |-> hash,
     ipfsUri |-> IpfsUri(hash), metadata |-> metadata]

(* The body is validated before the credential is looked at. *)
PostPathValidatingFirst(body) ==
    IF ReadingBodyThrows(body) THEN "caught"
    ELSE IF RequiredFieldsMissing(body) THEN "invalid"
    ELSE IF ~PINATA_JWT THEN "configuration"
    ELSE "write"

(* POST up to its axios.post: the branch the handler takes. *)
PostPath(body) ==
    IF ~PINATA_JWT THEN "configuration"
    ELSE IF ReadingBodyThrows(body) THEN "caught"
    ELSE IF RequiredFieldsMissing(body) THEN "invalid"
    ELSE "write"

(* GET up to its first axios.get: the branch the handler takes. *)
GetPath(id) ==
    IF ~PINATA_JWT THEN "configuration"
    ELSE IF Falsy(id) THEN "invalid"
    ELSE "query"

(* A request can be taken: no handler is running, and the response of   *)
(* the last one is not still on its way to the browser's call.           *)
Accepting == handler.pc \in {"idle", "done"} /\ client.pc # "awaiting"

(* The awaited store call ends ("ok" or "failed") and the handler ends    *)
(* with this response.                                                    *)
Respond(r, result) ==
    /\ response' = <<r>>
    /\ handler' = [handler EXCEPT !.pc = "done",
                                  !.storeResults = Append(@, result)]

(* POST(req) up to its response or to the await of axios.post. *)
PostHandler(body) ==
    /\ Accepting
    /\ LET path == PostPath(body)
           h == [HandlerIdle EXCEPT !.method = "POST", !.request = body,
                                    !.pinsBefore = Len(pins),
                                    !.receivedAt = now]
       IN  CASE path = "configuration" ->
                  /\ response' = <<ErrorReply(500, "Server configuration error")>>
                  /\ handler' = [h EXCEPT !.pc = "done"]
             [] path = "caught" ->
                  /\ response' = <<CaughtReply("Failed to upload to IPFS",
                                               BodyFailureDetail)>>
                  /\ handler' = [h EXCEPT !.pc = "done"]
             [] path = "invalid" ->
                  /\ response' = <<ErrorReply(400,
                                     "Missing required fields: campaignId, title")>>
                  /\ handler' = [h EXCEPT !.pc = "done"]
             [] path = "write" ->
                  /\ response' = <<>>
                  /\ handler' = [h EXCEPT !.pc = "pinJSONToIPFS",
                                          !.metadata = <<Stamp(body, now)>>,
                                          !.storeCalls = 1]
    /\ UNCHANGED <<pageVars, pins, batchVars, PINATA_JWT>>

(* A POST that does not come from the browser's pinataService. *)
Post(body) == PostHandler(body) /\ UNCHANGED clientVars

(* pinJSONToIPFS pins the content and answers with its hash. *)
PinJsonResolved ==
    /\ handler.pc = "pinJSONToIPFS"
    /\ Len(pins) < MaxPins
    /\ pins' = Append(pins, handler.metadata[1])
    /\ Respond(SuccessReply(Len(pins'), <<>>), "ok")
    /\ UNCHANGED <<pageVars, batchVars, PINATA_JWT, clientVars>>

(* axios.post rejects or times out; the store may have pinned the content *)
(* all the same.                                                          *)
PinJsonRejected(pinned) ==
    /\ handler.pc = "pinJSONToIPFS"
    /\ pinned => Len(pins) < MaxPins
    /\ pins' = IF pinned THEN Append(pins, handler.metadata[1]) ELSE pins
    /\ Respond(CaughtReply("Failed to upload to IPFS", StoreFailureDetail),
               "failed")
    /\ UNCHANGED <<pageVars, batchVars, PINATA_JWT, clientVars>>

(* GET(req) up to its response or to the await of the pin-list query. *)
GetHandler(id) ==
    /\ Accepting
    /\ LET path == GetPath(id)
           h == [HandlerIdle EXCEPT !.method = "GET", !.request = Query(id),
                                    !.pinsBefore = Len(pins),
                                    !.receivedAt = now]
       IN  CASE path = "configuration" ->
                  /\ response' = <<ErrorReply(500, "Server configuration error")>>
                  /\ handler' = [h EXCEPT !.pc = "done"]
             [] path = "invalid" ->
                  /\ response' = <<ErrorReply(400,
                                     "campaignId query parameter required")>>
                  /\ handler' = [h EXCEPT !.pc = "done"]
             [] path = "query" ->
                  /\ response' = <<>>
                  /\ handler' = [h EXCEPT !.pc = "pinList", !.storeCalls = 1]
    /\ UNCHANGED <<pageVars, pins, batchVars, PINATA_JWT>>

(* A GET that does not come from the browser's pinataService. *)
Get(id) == GetHandler(id) /\ UNCHANGED clientVars

(* The pin-list query answers: count === 0, or rows[0] is read next. *)
PinListResolved ==
    /\ handler.pc = "pinList"
    /\ IF PinsOf(handler.request.campaignId) = {}
       THEN Respond(ErrorReply(404, "Metadata not found"), "ok")
       ELSE /\ handler' = [handler EXCEPT
                              !.pc = "content",
                              !.hash = Newest(PinsOf(handler.request.campaignId)),
                              !.storeCalls = @ + 1,
                              !.storeResults = Append(@, "ok")]
            /\ response' = <<>>
    /\ UNCHANGED <<pageVars, pins, batchVars, PINATA_JWT, clientVars>>

(* The content read answers. *)
ContentResolved ==
    /\ handler.pc = "content"
    /\ Respond(SuccessReply(handler.hash, <<pins[handler.hash]>>), "ok")
    /\ UNCHANGED <<pageVars, pins, batchVars, PINATA_JWT, clientVars>>

(* A failed read of the store answered as if no record were pinned. *)
StoreReadRejectedAsNotFound ==
    /\ handler.pc \in {"pinList", "content"}
    /\ Respond(ErrorReply(404, "Metadata not found"), "failed")
    /\ UNCHANGED <<pageVars, pins, batchVars, PINATA_JWT, clientVars>>

(* Either read of the store rejects or times out. *)
StoreReadRejected ==
    /\ handler.pc \in {"pinList", "content"}
    /\ Respond(CaughtReply("Failed to fetch metadata", StoreFailureDetail),
               "failed")
    /\ UNCHANGED <<pageVars, pins, batchVars, PINATA_JWT, clientVars>>

(* ------------------ pinataService: uploadMetadataToPinata ------------- *)

(* metadata: Omit<CampaignMetadata, "createdAt">, sent as                 *)
(* JSON.stringify(metadata).                                              *)
UploadArgs ==
    [shape : {"object"}, campaignId : {""} \cup BatchIds,
     title : {"", "Reef"}, createdAt : {Undefined}]

(* How a call ends: a returned value or a thrown Error(message). *)
Returns(value) == [threw |-> FALSE, message |-> "", value |-> value]
Throws(message) ==
    [threw |-> TRUE, message |-> message, value |-> StripScheme(IpfsUri(0))]

(* a || b on strings *)
OrElse(a, b) == IF a # "" THEN a ELSE b

FetchRejectedMessage == "Failed to fetch"
FixedUploadError == "Failed to upload metadata to IPFS"

(* The body of the try: fetch rejects (nothing delivered), the response   *)
(* is not ok, or data.ipfsUri is returned.                                *)
UploadAttempt(delivered) ==
    IF delivered = <<>> THEN Throws(FetchRejectedMessage)
    ELSE IF delivered[1].status # 200
    THEN Throws(OrElse(delivered[1].details,
                       OrElse(delivered[1].error, "Upload failed")))
    ELSE Returns(delivered[1].ipfsUri)

(* The error of the try is thrown on as it is. *)
UploadMetadataToPinataRethrowing(delivered) == UploadAttempt(delivered)

(* catch (error) { throw new Error("Failed to upload metadata to IPFS") } *)
UploadMetadataToPinata(delivered) ==
    IF UploadAttempt(delivered).threw THEN Throws(FixedUploadError)
    ELSE UploadAttempt(delivered)

ClientFree == client.pc \in {"idle", "settled"}

(* uploadMetadataToPinata(metadata) up to its await: the POST reaches the *)
(* route handler.                                                         *)
UploadMetadataCalled(metadata) ==
    /\ ClientFree
    /\ PostHandler(metadata)
    /\ client' = [NoCall EXCEPT !.fn = "upload", !.pc = "awaiting",
                                !.arg = metadata]

(* fetch rejects before the request reaches the server. *)
UploadMetadataUnreachable(metadata) ==
    /\ ClientFree
    /\ client' = [NoCall EXCEPT !.fn = "upload", !.pc = "settled",
                                !.arg = metadata,
                                !.outcome = <<UploadMetadataToPinata(<<>>)>>]
    /\ UNCHANGED <<pageVars, pins, batchVars, gatewayVars>>

(* The await ends: the handler's response arrives, or the connection is   *)
(* lost and fetch rejects.                                                *)
UploadMetadataSettles(lost) ==
    /\ client.fn = "upload"
    /\ client.pc = "awaiting"
    /\ lost \/ handler.pc = "done"
    /\ LET delivered == IF lost THEN <<>> ELSE response
       IN  client' = [client EXCEPT
                         !.pc = "settled",
                         !.delivered = delivered,
                         !.outcome = <<UploadMetadataToPinata(delivered)>>]
    /\ UNCHANGED <<pageVars, pins, batchVars, gatewayVars>>

(* ------------------- list page over several campaigns ---------------- *)

(* err.message of the two calls that precede the per-campaign reads. *)
ContractUnavailable == "could not detect network"
CountReverted == "call revert exception"

(* The contract's createCampaign: the record takes the next id. *)
CreateNextCampaign(goal, deadline) ==
    /\ Len(ledger) < MaxCampaigns
    /\ deadline > now
    /\ ledger' = Append(ledger,
                        [creator |-> Creator, title |-> "Reef",
                         description |-> "", goal |-> goal,
                         raised |-> Undefined, raisedAmount |-> 0,
                         deadline |-> deadline])
    /\ UNCHANGED <<donorCount, now, metadataStore, storeReads, page,
                   detailVars, listVars, appVars, serviceVars>>

(* A request of fetchAllCampaigns: not yet pushed, awaiting getCampaign,  *)
(* or returned with a view or with null.                                  *)
Unstarted == [state |-> "unstarted", view |-> <<>>]
PendingRead == [state |-> "pending", view |-> <<>>]
ReturnedView(v) == [state |-> "returned", view |-> <<v>>]
ReturnedNull == [state |-> "returned", view |-> <<>>]

(* for (let i = 0; i < total; i++) requests.push(fetchSingleCampaign(..)) *)
Pushed(total) == 1..total

(* campaignCount resolves: total = 0 shows the empty list; otherwise one  *)
(* fetchSingleCampaign is called per id, each up to its await, and the    *)
(* function awaits Promise.all.                                           *)
CampaignCountResolvedPushing ==
    /\ listPc = "campaignCount"
    /\ LET total == Len(ledger)
       IN  IF total = 0
           THEN /\ campaigns' = <<>>
                /\ listLoading' = FALSE
                /\ listPc' = "done"
                /\ listing' = [listing EXCEPT !.total = <<0>>]
           ELSE /\ listPc' = "promiseAll"
                /\ listing' = [total |-> <<total>>,
                               requests |-> [i \in 1..total |->
                                               IF i \in Pushed(total)
                                               THEN PendingRead
                                               ELSE Unstarted],
                               settled |-> <<>>]
                /\ UNCHANGED <<campaigns, listLoading>>
    /\ UNCHANGED <<ledgerVars, serviceVars, page, detailVars, listFrame,
                   listError, form, viewVars>>

(* contract.getCampaign(i - 1) resolves; fetchSingleCampaign returns the  *)
(* view derived at that moment.                                           *)
FetchSingleCampaignReturns(i) ==
    /\ listPc = "promiseAll"
    /\ i \in DOMAIN listing.requests
    /\ listing.requests[i].state = "pending"
    /\ listing' = [listing EXCEPT
                      !.requests[i] = ReturnedView(ListView(i - 1, ledger[i], now)),
                      !.settled = Append(@, i)]
    /\ UNCHANGED <<ledgerVars, serviceVars, page, detailVars, listVars, form, viewVars>>

(* contract.getCampaign(i - 1) rejects; the catch returns null. *)
FetchSingleCampaignCatches(i) ==
    /\ listPc = "promiseAll"
    /\ i \in DOMAIN listing.requests
    /\ listing.requests[i].state = "pending"
    /\ listing' = [listing EXCEPT !.requests[i] = ReturnedNull,
                                  !.settled = Append(@, i)]
    /\ UNCHANGED <<ledgerVars, serviceVars, page, detailVars, listVars, form, viewVars>>

Reverse(seq) == [k \in 1..Len(seq) |-> seq[Len(seq) - k + 1]]

(* The requests' values in the order the requests completed. *)
ResultsAsSettled(l) == [k \in 1..Len(l.settled) |-> l.requests[l.settled[k]].view]

(* const results = await Promise.all(requests): in the order pushed. *)
Results(l) == [i \in 1..Len(l.requests) |-> l.requests[i].view]

(* results.filter(Boolean) *)
FilterBoolean(values) ==
    LET kept == SelectSeq(values, LAMBDA r : r # <<>>)
    IN  [k \in 1..Len(kept) |-> kept[k][1]]

(* Promise.all resolves; setCampaigns(results.filter(Boolean).reverse()) *)
PromiseAllResolved ==
    /\ listPc = "promiseAll"
    /\ \A i \in DOMAIN listing.requests :
           listing.requests[i].state = "returned"
    /\ campaigns' = Reverse(FilterBoolean(Results(listing)))
    /\ listLoading' = FALSE
    /\ listPc' = "done"
    /\ UNCHANGED <<ledgerVars, serviceVars, page, detailVars, listFrame,
                   listError, appVars>>

InitList ==
    /\ pins = <<>>
    /\ variant = "byId"
    /\ BatchIdle
    /\ PINATA_JWT = TRUE
    /\ GatewayIdle
    /\ ClientIdle
    /\ AppIdle
    /\ ledger = <<>>
    /\ donorCount = 0
    /\ now = 0
    /\ metadataStore = <<>>
    /\ storeReads = 0
    /\ page = "campaigns"
    /\ DetailInitial("unmounted")
    /\ ListInitial("effect")

NextList ==
    \/ \E dl \in 1..MaxTime : CreateNextCampaign(MaxWei, dl)
    \/ Tick
    \/ FetchAllCampaigns
    \/ ListContractResolved
    \/ ListContractRejected(ContractUnavailable)
    \/ CampaignCountResolvedPushing
    \/ CampaignCountRejected(CountReverted)
    \/ \E i \in 1..MaxCampaigns : FetchSingleCampaignReturns(i)
    \/ \E i \in 1..MaxCampaigns : FetchSingleCampaignCatches(i)
    \/ PromiseAllResolved

SpecList == InitList /\ [][NextList]_vars

(* --------------------------- creation page ---------------------------- *)

(* What the user can type in the title, goal and deadline fields. *)
TitleTexts == {" ", "Reef"}
GoalTexts == {"0", "1abc", "2"}
NoDate == [kind |-> "empty", timestamp |-> 0]
DeadlineTexts ==
    {[kind |-> "invalid", timestamp |-> 0]} \cup
    {[kind |-> "date", timestamp |-> t] : t \in 1..MaxTime}

(* title.trim() *)
Trim(text) == IF text = " " THEN "" ELSE text

(* parseFloat(goal): <<>> is NaN; the leading number of the text. *)
ParseFloat(text) ==
    CASE text = "0" -> <<0>>
      [] text = "1abc" -> <<1>>
      [] text = "2" -> <<2>>
      [] OTHER -> <<>>

(* parseEther(goal): <<>> when it throws; text that is not a decimal      *)
(* number is refused.                                                     *)
ParseEther(text) ==
    CASE text = "0" -> <<0>>
      [] text = "2" -> <<2>>
      [] OTHER -> <<>>

(* Math.floor(new Date(deadline).getTime() / 1000): <<>> is NaN. *)
GetTime(deadline) ==
    IF deadline.kind = "date" THEN <<deadline.timestamp>> ELSE <<>>

(* campaignId.toString() *)
IdText(n) == <<"0", "1", "2", "3", "4">>[n + 1]

Valid(value) == [ok |-> TRUE, message |-> "", value |-> value]
Invalid(message) == [ok |-> FALSE, message |-> message, value |-> 0]

(* validateGoal: the goal in wei, or the error it throws. *)
ValidateGoal(goal) ==
    IF goal = "" \/ Trim(goal) = "" THEN Invalid("Goal amount is required.")
    ELSE IF ParseFloat(goal) = <<>> \/ ParseFloat(goal)[1] <= 0
    THEN Invalid("Goal must be greater than 0 ETH.")
    ELSE IF ParseEther(goal) = <<>>
    THEN Invalid("Invalid goal format. Use numbers only (e.g., 1.5).")
    ELSE Valid(ParseEther(goal)[1])

(* validateDeadline at clock t: the timestamp, or the error it throws. *)
ValidateDeadline(deadline, t) ==
    IF deadline.kind = "empty" THEN Invalid("Deadline is required.")
    ELSE IF GetTime(deadline) = <<>> \/ GetTime(deadline)[1] <= t
    THEN Invalid("Deadline must be a valid future date.")
    ELSE Valid(GetTime(deadline)[1])

(* goalWei = validateGoal(); deadlineTimestamp = validateDeadline():      *)
(* the first error thrown, or both values.                                *)
ValidateBoth(f, t) ==
    IF ~ValidateGoal(f.goal).ok THEN ValidateGoal(f.goal)
    ELSE IF ~ValidateDeadline(f.deadline, t).ok
    THEN ValidateDeadline(f.deadline, t)
    ELSE Valid([goalWei |-> ValidateGoal(f.goal).value,
                deadlineTimestamp |-> ValidateDeadline(f.deadline, t).value])

(* The confirmation relying on what handleSubmit has validated. *)
RevalidateTrustingSubmit(f, t) ==
    Valid([goalWei |-> IF ParseEther(f.goal) = <<>> THEN 0
                       ELSE ParseEther(f.goal)[1],
           deadlineTimestamp |-> f.deadline.timestamp])

(* "Validate again before execution" *)
Revalidate(f, t) == ValidateBoth(f, t)

(* The page as mounted: empty fields, no modal, nothing submitted.  The   *)
(* form records the transactions handed to actions.createCampaign         *)
(* (submitted), how many of them have settled, and what the last          *)
(* confirmation did (confirmed).                                          *)
FormMounted(ready) ==
    [pc |-> "idle", title |-> "", goal |-> "", deadline |-> NoDate,
     showConfirmModal |-> FALSE, isProcessing |-> FALSE,
     walletMissing |-> FALSE, errorMessage |-> "", isExecuting |-> FALSE,
     isReady |-> ready, confirmed |-> "none", submitted |-> <<>>,
     settled |-> 0, receipt |-> "none", campaignId |-> <<>>,
     route |-> "/create"]

(* resetForm() *)
ResetForm(f) ==
    [f EXCEPT !.title = "", !.goal = "", !.deadline = NoDate,
              !.errorMessage = ""]

SetTitle(text) ==
    /\ form.pc = "idle"
    /\ form.title # text
    /\ form' = [form EXCEPT !.title = text]
    /\ UNCHANGED <<ledgerVars, page, detailVars, listVars, listing, viewVars,
                   serviceVars>>

SetGoal(text) ==
    /\ form.pc = "idle"
    /\ form.goal # text
    /\ form' = [form EXCEPT !.goal = text]
    /\ UNCHANGED <<ledgerVars, page, detailVars, listVars, listing, viewVars,
                   serviceVars>>

SetDeadline(text) ==
    /\ form.pc = "idle"
    /\ form.deadline # text
    /\ form' = [form EXCEPT !.deadline = text]
    /\ UNCHANGED <<ledgerVars, page, detailVars, listVars, listing, viewVars,
                   serviceVars>>

(* handleSubmit *)
HandleSubmit ==
    /\ form.pc = "idle"
    /\ ~form.showConfirmModal
    /\ form' =
          IF Trim(form.title) = ""
          THEN [form EXCEPT !.errorMessage = "Title is required."]
          ELSE IF ~ValidateBoth(form, now).ok
          THEN [form EXCEPT !.errorMessage = ValidateBoth(form, now).message]
          ELSE [form EXCEPT !.errorMessage = "",
                            !.walletMissing = ~form.isReady,
                            !.showConfirmModal = TRUE]
    /\ UNCHANGED <<ledgerVars, page, detailVars, listVars, listing, viewVars,
                   serviceVars>>

(* isExecutingRef.current *)
isExecutingRef == form.isExecuting

(* executeCreateCampaign without the check of isExecutingRef: every      *)
(* confirmation goes on to the wallet, the validation and the             *)
(* transaction.                                                           *)
ExecuteCreateCampaignUnguarded ==
    /\ form.pc \in {"idle", "creating", "upload"}
    /\ form.showConfirmModal \/ form.isExecuting
    /\ Len(ledger) + Len(form.submitted) < MaxCampaigns
    /\ form' =
          IF form.walletMissing
          THEN [form EXCEPT !.showConfirmModal = FALSE,
                            !.isProcessing = TRUE,
                            !.pc = "connectWallet"]
          ELSE IF ~Revalidate(form, now).ok
          THEN [form EXCEPT !.errorMessage = Revalidate(form, now).message,
                            !.showConfirmModal = FALSE,
                            !.confirmed = "invalid"]
          ELSE [form EXCEPT
                   !.confirmed = "submitted",
                   !.isExecuting = TRUE,
                   !.isProcessing = TRUE,
                   !.showConfirmModal = FALSE,
                   !.pc = "creating",
                   !.receipt = "none",
                   !.campaignId = <<>>,
                   !.submitted = Append(@,
                       [title |-> Trim(form.title),
                        goalWei |-> Revalidate(form, now).value.goalWei,
                        deadlineTimestamp |->
                            Revalidate(form, now).value.deadlineTimestamp,
                        at |-> now])]
    /\ UNCHANGED <<ledgerVars, page, detailVars, listVars, listing, viewVars,
                   serviceVars>>

(* executeCreateCampaign up to its first await: a confirmation while a    *)
(* creation is executing returns at once (the form records it as          *)
(* ignored); the wallet connection when the wallet is missing; the second *)
(* validation, and the createCampaign transaction when it passes.         *)
ExecuteCreateCampaign ==
    /\ form.pc \in {"idle", "creating", "upload"}
    /\ form.showConfirmModal \/ form.isExecuting
    /\ Len(ledger) + Len(form.submitted) < MaxCampaigns
    /\ form' =
          IF isExecutingRef THEN [form EXCEPT !.confirmed = "ignored"]
          ELSE IF form.walletMissing
          THEN [form EXCEPT !.showConfirmModal = FALSE,
                            !.isProcessing = TRUE,
                            !.pc = "connectWallet"]
          ELSE IF ~Revalidate(form, now).ok
          THEN [form EXCEPT !.errorMessage = Revalidate(form, now).message,
                            !.showConfirmModal = FALSE,
                            !.confirmed = "invalid"]
          ELSE [form EXCEPT
                   !.confirmed = "submitted",
                   !.isExecuting = TRUE,
                   !.isProcessing = TRUE,
                   !.showConfirmModal = FALSE,
                   !.pc = "creating",
                   !.receipt = "none",
                   !.campaignId = <<>>,
                   !.submitted = Append(@,
                       [title |-> Trim(form.title),
                        goalWei |-> Revalidate(form, now).value.goalWei,
                        deadlineTimestamp |->
                            Revalidate(form, now).value.deadlineTimestamp,
                        at |-> now])]
    /\ UNCHANGED <<ledgerVars, page, detailVars, listVars, listing, viewVars,
                   serviceVars>>

(* await connectWallet() resolves. *)
ConnectWalletResolved ==
    /\ form.pc = "connectWallet"
    /\ form' = [form EXCEPT !.walletMissing = FALSE, !.isReady = TRUE,
                            !.showConfirmModal = TRUE,
                            !.isProcessing = FALSE, !.pc = "idle"]
    /\ UNCHANGED <<ledgerVars, page, detailVars, listVars, listing, viewVars,
                   serviceVars>>

(* await connectWallet() rejects. *)
ConnectWalletRejected ==
    /\ form.pc = "connectWallet"
    /\ form' = [form EXCEPT
                   !.errorMessage = "Failed to connect wallet. Please try again.",
                   !.isProcessing = FALSE, !.pc = "idle"]
    /\ UNCHANGED <<ledgerVars, page, detailVars, listVars, listing, viewVars,
                   serviceVars>>

(* The transaction in flight. *)
Tx == form.submitted[Len(form.submitted)]

(* The campaignId of the receipt's CampaignCreated log; 0 when no log     *)
(* carries one.                                                           *)
ExtractCampaignIdDefaulting(logs) ==
    LET created == SelectSeq(logs, LAMBDA l : l.name = "CampaignCreated"
                                               /\ l.campaignId # Undefined)
    IN  IF created = <<>> THEN <<0>> ELSE <<created[1].campaignId>>

(* The loop over receipt.logs: the campaignId of the first log named      *)
(* CampaignCreated that carries one, undefined (<<>>) otherwise.          *)
ExtractCampaignId(logs) ==
    LET created == SelectSeq(logs, LAMBDA l : l.name = "CampaignCreated"
                                               /\ l.campaignId # Undefined)
    IN  IF created = <<>> THEN <<>> ELSE <<created[1].campaignId>>

(* The logs of a receipt for the campaign created with this id: the       *)
(* event, an event the interface could not parse, or none.                *)
ReceiptLogs(id) ==
    {<<[name |-> "CampaignCreated", campaignId |-> id]>>,
     <<[name |-> "", campaignId |-> Undefined]>>,
     <<>>}

(* The metadata handed to uploadMetadataToPinata. *)
FlowMetadata ==
    [shape |-> "object", campaignId |-> IdText(form.campaignId[1]),
     title |-> Tx.title, createdAt |-> Undefined]

(* uploadMetadataToPinata has been called for the campaign created. *)
UploadIssued ==
    /\ form.campaignId # <<>>
    /\ client.fn = "upload"
    /\ client.arg = FlowMetadata

(* After the flow: the form reset, the list page pushed, and the finally. *)
Leave(f) ==
    [ResetForm(f) EXCEPT !.route = "/campaigns", !.pc = "left",
                         !.isProcessing = FALSE, !.isExecuting = FALSE]

(* await actions.createCampaign(..) resolves with the receipt: the ledger *)
(* holds the new campaign.  Without a campaignId the flow ends here.      *)
CreateCampaignResolved(logs) ==
    /\ form.pc = "creating"
    /\ Tx.deadlineTimestamp > now
    /\ logs \in ReceiptLogs(Len(ledger))
    /\ ledger' = Append(ledger,
                        [creator |-> Creator, title |-> Tx.title,
                         description |-> "", goal |-> Tx.goalWei,
                         raised |-> Undefined, raisedAmount |-> 0,
                         deadline |-> Tx.deadlineTimestamp])
    /\ LET campaignId == ExtractCampaignId(logs)
           f == [form EXCEPT !.receipt = "mined", !.campaignId = campaignId,
                             !.settled = @ + 1]
       IN  form' = IF campaignId # <<>> THEN [f EXCEPT !.pc = "upload"]
                   ELSE Leave(f)
    /\ UNCHANGED <<donorCount, now, metadataStore, storeReads, page,
                   detailVars, listVars, listing, viewVars, serviceVars>>

(* await actions.createCampaign(..) rejects: the outer catch and finally. *)
CreateCampaignRejected(msg) ==
    /\ form.pc = "creating"
    /\ form' = [form EXCEPT
                   !.receipt = "rejected",
                   !.settled = @ + 1,
                   !.errorMessage =
                       ErrorText(msg, "Failed to create campaign. Please try again."),
                   !.showConfirmModal = FALSE,
                   !.isProcessing = FALSE,
                   !.isExecuting = FALSE,
                   !.pc = "idle"]
    /\ UNCHANGED <<ledgerVars, page, detailVars, listVars, listing, viewVars,
                   serviceVars>>

(* uploadMetadataToPinata({campaignId: campaignId.toString(), ..}) is     *)
(* called and its POST reaches the route handler.                         *)
FlowUploadCalled ==
    /\ form.pc = "upload"
    /\ ~UploadIssued
    /\ UploadMetadataCalled(FlowMetadata)

(* The POST of the flow's upload never reaches the server. *)
FlowUploadUnreachable ==
    /\ form.pc = "upload"
    /\ ~UploadIssued
    /\ UploadMetadataUnreachable(FlowMetadata)

(* A failed upload taken for a failed creation: the outer catch. *)
FlowUploadSettledRethrowing ==
    /\ form.pc = "upload"
    /\ UploadIssued
    /\ client.pc = "settled"
    /\ form' = IF client.outcome[1].threw
               THEN [form EXCEPT
                        !.errorMessage = client.outcome[1].message,
                        !.showConfirmModal = FALSE,
                        !.isProcessing = FALSE,
                        !.isExecuting = FALSE,
                        !.pc = "idle"]
               ELSE Leave(form)
    /\ UNCHANGED <<ledgerVars, page, detailVars, listVars, listing, viewVars,
                   serviceVars>>

(* await uploadMetadataToPinata(..) returns or throws; a throw is caught  *)
(* and logged; resetForm(); router.push("/campaigns"); finally.           *)
FlowUploadSettled ==
    /\ form.pc = "upload"
    /\ UploadIssued
    /\ client.pc = "settled"
    /\ form' = Leave(form)
    /\ UNCHANGED <<ledgerVars, page, detailVars, listVars, listing, viewVars,
                   serviceVars>>

InitCreate ==
    /\ pins = <<>>
    /\ variant = "byId"
    /\ BatchIdle
    /\ PINATA_JWT = TRUE
    /\ GatewayIdle
    /\ ClientIdle
    /\ listing = NoListing
    /\ ViewIdle
    /\ \E ready \in BOOLEAN : form = FormMounted(ready)
    /\ ledger = <<>>
    /\ donorCount = 0
    /\ now = 0
    /\ metadataStore = <<>>
    /\ storeReads = 0
    /\ page = "details"
    /\ DetailInitial("unmounted")
    /\ ListInitial("unmounted")

NextCreate ==
    \/ \E text \in TitleTexts : SetTitle(text)
    \/ \E text \in GoalTexts : SetGoal(text)
    \/ \E text \in DeadlineTexts : SetDeadline(text)
    \/ HandleSubmit
    \/ ExecuteCreateCampaign
    \/ ConnectWalletResolved
    \/ ConnectWalletRejected
    \/ \E id \in 0..MaxCampaigns : \E logs \in ReceiptLogs(id) :
           CreateCampaignResolved(logs)
    \/ \E msg \in Messages : CreateCampaignRejected(msg)
    \/ FlowUploadCalled
    \/ FlowUploadUnreachable
    \/ PinJsonResolved
    \/ \E pinned \in BOOLEAN : PinJsonRejected(pinned)
    \/ \E lost \in BOOLEAN : UploadMetadataSettles(lost)
    \/ FlowUploadSettled
    \/ CreateNextCampaign(MaxWei, MaxTime)
    \/ Tick

SpecCreate == InitCreate /\ [][NextCreate]_vars

(* ---------------------- details page: donation ----------------------- *)

(* What the user can type in the amount field of the donate modal. *)
AmountTexts == {"", "0", "1abc", "2"}

(* What parseEther throws for a text that is not a decimal number. *)
ParseEtherError == "invalid FixedNumber string value"

(* The donation state of CampaignDetails as mounted: the useState and     *)
(* useRef initial values, the wallet as the provider reports it, the      *)
(* donate transactions handed to actions.donate (submitted), how many of  *)
(* them have settled, and what the last confirmation did (confirmed).     *)
DonationMounted(ready, acts) ==
    [pc |-> "idle", donationAmount |-> "", showDonateModal |-> FALSE,
     isDonating |-> FALSE, donationError |-> "", isExecuting |-> FALSE,
     isReady |-> ready, actions |-> acts, connecting |-> FALSE,
     confirmed |-> "none", submitted |-> <<>>, settled |-> 0]

(* The page renders the campaign (and with it the donate button and the   *)
(* modal): not loading, no error, a campaign view.                        *)
ViewRendered ==
    /\ page = "details"
    /\ donation.pc # "unmounted"
    /\ ~loading
    /\ error = <<>>
    /\ campaign # <<>>

(* handleDonateClick: the button is shown for an active campaign. *)
HandleDonateClick ==
    /\ ViewRendered
    /\ campaign[1].isActive
    /\ ~donation.showDonateModal
    /\ donation' =
          IF ~donation.isReady
          THEN [donation EXCEPT !.connecting = TRUE]
          ELSE [donation EXCEPT !.showDonateModal = TRUE,
                                !.donationError = ""]
    /\ UNCHANGED <<ledgerVars, page, detailVars, listVars, listing, form,
                   loads, serviceVars>>

(* connectWallet() succeeds: the provider reports the wallet and actions. *)
WalletConnected ==
    /\ donation.pc # "unmounted"
    /\ donation.connecting
    /\ donation' = [donation EXCEPT !.connecting = FALSE, !.isReady = TRUE,
                                    !.actions = TRUE]
    /\ UNCHANGED <<ledgerVars, page, detailVars, listVars, listing, form,
                   loads, serviceVars>>

(* onAmountChange={setDonationAmount} *)
SetDonationAmount(text) ==
    /\ ViewRendered
    /\ donation.showDonateModal
    /\ ~donation.isDonating
    /\ donation.donationAmount # text
    /\ donation' = [donation EXCEPT !.donationAmount = text]
    /\ UNCHANGED <<ledgerVars, page, detailVars, listVars, listing, form,
                   loads, serviceVars>>

(* onCancel *)
CancelDonation ==
    /\ ViewRendered
    /\ donation.showDonateModal
    /\ donation' = [donation EXCEPT !.showDonateModal = FALSE,
                                    !.donationAmount = "",
                                    !.donationError = ""]
    /\ UNCHANGED <<ledgerVars, page, detailVars, listVars, listing, form,
                   loads, serviceVars>>

(* The outcome of a confirmation that passed the first line of            *)
(* executeDonation: the amount refused; parseEther throwing inside the    *)
(* try (catch and finally run at once); or the transaction handed to      *)
(* actions.donate.                                                        *)
DonationConfirmed(d, view) ==
    IF ParseFloat(d.donationAmount) = <<>>
       \/ ParseFloat(d.donationAmount)[1] <= 0
    THEN [d EXCEPT !.donationError = "Please enter a valid amount",
                   !.confirmed = "rejected"]
    ELSE IF ParseEther(d.donationAmount) = <<>>
    THEN [d EXCEPT !.donationError = ParseEtherError,
                   !.isDonating = FALSE,
                   !.isExecuting = FALSE,
                   !.confirmed = "threw"]
    ELSE [d EXCEPT !.isExecuting = TRUE,
                   !.isDonating = TRUE,
                   !.donationError = "",
                   !.pc = "donating",
                   !.confirmed = "submitted",
                   !.submitted = Append(@,
                       [id |-> view.id,
                        amount |-> d.donationAmount,
                        amountWei |-> ParseEther(d.donationAmount)[1]])]

(* executeDonation without the check of isExecutingRef. *)
ExecuteDonationUnguarded ==
    /\ donation.pc \in {"idle", "donating"}
    /\ (ViewRendered /\ donation.showDonateModal) \/ donation.isExecuting
    /\ Len(donation.submitted) <= MaxDonors
    /\ donation' =
          IF ~donation.actions \/ campaign = <<>>
          THEN [donation EXCEPT !.confirmed = "ignored"]
          ELSE DonationConfirmed(donation, campaign[1])
    /\ UNCHANGED <<ledgerVars, page, detailVars, listVars, listing, form,
                   loads, serviceVars>>

(* executeDonation up to its await: a confirmation while a donation is    *)
(* executing, without actions or without a campaign returns at once (the  *)
(* record notes it as ignored).  The confirm button is pressed in the     *)
(* open modal, or once more before the page has rendered isDonating.      *)
ExecuteDonation ==
    /\ donation.pc \in {"idle", "donating"}
    /\ (ViewRendered /\ donation.showDonateModal) \/ donation.isExecuting
    /\ Len(donation.submitted) <= MaxDonors
    /\ donation' =
          IF donation.isExecuting \/ ~donation.actions \/ campaign = <<>>
          THEN [donation EXCEPT !.confirmed = "ignored"]
          ELSE DonationConfirmed(donation, campaign[1])
    /\ UNCHANGED <<ledgerVars, page, detailVars, listVars, listing, form,
                   loads, serviceVars>>

(* The donate transaction in flight. *)
DonateTx == donation.submitted[Len(donation.submitted)]

(* await actions.donate(..) resolves: the ledger has added the amount;    *)
(* window.location.reload() mounts the page anew.                         *)
DonateResolved(ready, acts) ==
    /\ donation.pc = "donating"
    /\ DonateTx.id < Len(ledger)
    /\ donorCount < MaxDonors
    /\ ledger[DonateTx.id + 1].raisedAmount + DonateTx.amountWei <= MaxWei
    /\ ledger' = [ledger EXCEPT ![DonateTx.id + 1].raisedAmount =
                                    @ + DonateTx.amountWei]
    /\ donorCount' = donorCount + 1
    /\ DetailReset("effect")
    /\ donation' = [DonationMounted(ready, acts) EXCEPT
                       !.confirmed = donation.confirmed,
                       !.submitted = donation.submitted,
                       !.settled = donation.settled + 1]
    /\ UNCHANGED <<now, metadataStore, storeReads, page, listVars, listing,
                   form, loads, serviceVars>>

(* await actions.donate(..) rejects: catch and finally. *)
DonateRejected(msg) ==
    /\ donation.pc = "donating"
    /\ donation' = [donation EXCEPT
                       !.donationError = ErrorText(msg, "Donation failed"),
                       !.isDonating = FALSE,
                       !.isExecuting = FALSE,
                       !.settled = @ + 1,
                       !.pc = "idle"]
    /\ UNCHANGED <<ledgerVars, page, detailVars, listVars, listing, form,
                   loads, serviceVars>>

(* The details page mounted before the provider has a wallet: the first  *)
(* click on the donate button connects it.                                *)
InitDonate ==
    /\ pins = <<>>
    /\ variant = "byId"
    /\ BatchIdle
    /\ PINATA_JWT = TRUE
    /\ GatewayIdle
    /\ ClientIdle
    /\ listing = NoListing
    /\ form = FormUnmounted
    /\ donation = DonationMounted(FALSE, FALSE)
    /\ loads = NoLoads
    /\ ledger = <<>>
    /\ donorCount = 0
    /\ now = 0
    /\ metadataStore = <<>>
    /\ storeReads = 0
    /\ page = "details"
    /\ DetailInitial("effect")
    /\ ListInitial("unmounted")

NextDonate ==
    \/ \E dl \in 1..MaxTime : CreateCampaign("Reef", "", MaxWei, dl)
    \/ Donate(1)
    \/ Tick
    \/ FetchCampaign
    \/ GetReadOnlyContractResolved
    \/ GetCampaignResolved
    \/ \E m \in Messages : GetCampaignRejected(m)
    \/ GetDonorCountResolved
    \/ HandleDonateClick
    \/ WalletConnected
    \/ \E text \in AmountTexts : SetDonationAmount(text)
    \/ CancelDonation
    \/ ExecuteDonation
    \/ \E ready \in BOOLEAN, acts \in BOOLEAN : DonateResolved(ready, acts)
    \/ \E m \in Messages : DonateRejected(m)

SpecDonate == InitDonate /\ [][NextDonate]_vars

(* ------------------ details page: the route changes ------------------ *)

(* The fetchCampaign call k of the page. *)
Load(k) == loads.started[k]

(* A fetchCampaign call is pending: started and not yet at its finally. *)
LoadPending == \E k \in DOMAIN loads.started : Load(k).pc # "done"

(* useParams() yields a new id: the effect runs for it, and               *)
(* fetchCampaign() runs up to its first await.  The calls started for     *)
(* earlier ids go on.                                                     *)
RouteTo(id) ==
    /\ page = "details"
    /\ pc = "loads"
    /\ loads.campaignId # <<id>>
    /\ Len(loads.started) < MaxLoads
    /\ loads' = [campaignId |-> <<id>>,
                 started |-> Append(loads.started,
                                    [id |-> id, pc |-> "getReadOnlyContract",
                                     frame |-> <<>>, outcome |-> "none"])]
    /\ loading' = TRUE
    /\ error' = <<>>
    /\ UNCHANGED <<ledgerVars, page, pc, frame, campaign, failedAt, listVars,
                   listing, form, donation, serviceVars>>

(* Call k's catch and finally. *)
LoadCatch(k, msg) ==
    /\ error' = <<ErrorText(msg, DefaultDetailError)>>
    /\ loading' = FALSE
    /\ loads' = [loads EXCEPT !.started[k].pc = "done",
                              !.started[k].outcome = "error"]
    /\ UNCHANGED <<ledgerVars, page, pc, frame, campaign, failedAt, listVars,
                   listing, form, donation, serviceVars>>

(* Call k: await getReadOnlyContract() resolves. *)
LoadContractResolved(k) ==
    /\ k \in DOMAIN loads.started
    /\ Load(k).pc = "getReadOnlyContract"
    /\ loads' = [loads EXCEPT !.started[k].pc = "getCampaign"]
    /\ UNCHANGED <<ledgerVars, page, detailVars, listVars, listing, form,
                   donation, serviceVars>>

(* Call k: await contract.getCampaign(id) resolves. *)
LoadCampaignResolved(k) ==
    /\ k \in DOMAIN loads.started
    /\ Load(k).pc = "getCampaign"
    /\ Load(k).id < Len(ledger)
    /\ loads' = [loads EXCEPT
                    !.started[k].pc = "getDonorCount",
                    !.started[k].frame =
                        <<[onChainData |-> ledger[Load(k).id + 1],
                           now |-> now]>>]
    /\ UNCHANGED <<ledgerVars, page, detailVars, listVars, listing, form,
                   donation, serviceVars>>

(* Call k: await contract.getCampaign(id) rejects. *)
LoadCampaignRejected(k, msg) ==
    /\ k \in DOMAIN loads.started
    /\ Load(k).pc = "getCampaign"
    /\ LoadCatch(k, msg)

(* Call k: await contract.getDonorCount(id) resolves; setCampaign of the  *)
(* view of call k's id; finally setLoading(false).  No campaign of this   *)
(* specification has donors.                                              *)
LoadDonorCountResolved(k) ==
    /\ k \in DOMAIN loads.started
    /\ Load(k).pc = "getDonorCount"
    /\ campaign' = <<DetailView(Load(k).id, Load(k).frame[1].onChainData,
                                Load(k).frame[1].now, 0)>>
    /\ loading' = FALSE
    /\ loads' = [loads EXCEPT !.started[k].pc = "done",
                              !.started[k].outcome = "view"]
    /\ UNCHANGED <<ledgerVars, page, pc, frame, error, failedAt, listVars,
                   listing, form, donation, serviceVars>>

(* The details page mounted before the router has supplied an id; the     *)
(* positions of its fetchCampaign calls are kept per call, in loads.      *)
InitRoute ==
    /\ pins = <<>>
    /\ variant = "byId"
    /\ BatchIdle
    /\ PINATA_JWT = TRUE
    /\ GatewayIdle
    /\ ClientIdle
    /\ listing = NoListing
    /\ form = FormUnmounted
    /\ donation = DonationUnmounted
    /\ loads = NoLoads
    /\ ledger = <<>>
    /\ donorCount = 0
    /\ now = 0
    /\ metadataStore = <<>>
    /\ storeReads = 0
    /\ page = "details"
    /\ DetailInitial("loads")
    /\ ListInitial("unmounted")

NextRoute ==
    \/ \E dl \in 1..MaxTime : CreateNextCampaign(MaxWei, dl)
    \/ Tick
    \/ \E id \in 0..(MaxCampaigns - 1) : RouteTo(id)
    \/ \E k \in 1..MaxLoads : LoadContractResolved(k)
    \/ \E k \in 1..MaxLoads : LoadCampaignResolved(k)
    \/ \E k \in 1..MaxLoads : LoadCampaignRejected(k, CountReverted)
    \/ \E k \in 1..MaxLoads : LoadDonorCountResolved(k)

SpecRoute == InitRoute /\ [][NextRoute]_vars

(* ------------------- the pages and fetchMany together ----------------- *)

(* The pages build their views while fetchMany runs over one-entry inputs *)
(* and the ledger and the store are written by others.                    *)
ViewInputs == {inp \in ByIdInputs : Len(inp) = 1 /\ inp[1].id = "0"}

NextViews ==
    \/ \E dl \in 1..MaxTime : CreateCampaign("Reef", "", MaxWei, dl)
    \/ Donate(MaxWei)
    \/ Tick
    \/ PinMetadata
    \/ FetchCampaign
    \/ GetReadOnlyContractResolved
    \/ GetReadOnlyContractRejected("")
    \/ GetCampaignResolved
    \/ GetCampaignRejected("")
    \/ GetDonorCountResolved
    \/ GetDonorCountRejected("")
    \/ FetchAllCampaigns
    \/ ListContractResolved
    \/ ListContractRejected("")
    \/ CampaignCountResolved
    \/ CampaignCountRejected("")
    \/ FetchSingleCampaignResolved
    \/ FetchSingleCampaignRejected
    \/ Navigate
    \/ \E inp \in ViewInputs : StartBatch(inp)
    \/ \E resp \in {NotFound, Failed} \cup {Found(k) : k \in 1..MaxPins} :
           LookupResponds(1, resp)
    \/ LookupCompletes(1)
    \/ ReturnBatch
    \/ StorePin("0")

SpecViews == Init /\ [][NextViews]_vars

(* --------------- pinataService: fetchMetadataByCampaignId ------------- *)

(* What the lookup sees of the response: response.status === 404,         *)
(* !response.ok or a rejected fetch, or data.metadata.                    *)
ReplyKind(delivered) ==
    IF delivered = <<>> THEN Failed
    ELSE IF delivered[1].status = 404 THEN NotFound
    ELSE IF delivered[1].status # 200 THEN Failed
    ELSE Found(delivered[1].ipfsHash)

(* fetchMetadataByCampaignId(campaignId) up to its await: the GET reaches *)
(* the route handler.                                                     *)
FetchMetadataCalled(id) ==
    /\ ClientFree
    /\ GetHandler(id)
    /\ client' = [NoCall EXCEPT !.fn = "lookup", !.pc = "awaiting",
                                !.arg = Query(id)]

(* fetch rejects before the request reaches the server. *)
FetchMetadataUnreachable(id) ==
    /\ ClientFree
    /\ client' = [NoCall EXCEPT
                     !.fn = "lookup", !.pc = "settled", !.arg = Query(id),
                     !.outcome = <<FetchMetadataByCampaignId(ReplyKind(<<>>))>>]
    /\ UNCHANGED <<pageVars, pins, batchVars, gatewayVars>>

(* The await ends: the handler's response arrives, or the connection is   *)
(* lost and fetch rejects.                                                *)
FetchMetadataSettles(lost) ==
    /\ client.fn = "lookup"
    /\ client.pc = "awaiting"
    /\ lost \/ handler.pc = "done"
    /\ LET delivered == IF lost THEN <<>> ELSE response
       IN  client' = [client EXCEPT
                         !.pc = "settled",
                         !.delivered = delivered,
                         !.outcome = <<FetchMetadataByCampaignId(
                                         ReplyKind(delivered))>>]
    /\ UNCHANGED <<pageVars, pins, batchVars, gatewayVars>>

(* ---------------- pinataService: fetchMetadataFromIPFS ---------------- *)

(* The two forms of a content address the lookup accepts. *)
BareAddress(h) == StripScheme(IpfsUri(h))
AddressForms(h) == {IpfsUri(h), BareAddress(h)}

(* The address put in the request with the argument used as it came. *)
RequestAddressUnstripped(ipfsUri) == ipfsUri

(* const hash = ipfsUri.replace("ipfs://", "") *)
RequestAddress(ipfsUri) == StripScheme(ipfsUri)

(* axios.get(PINATA_GATEWAY + "/" + address, {timeout: 10000}): the       *)
(* content pinned at a bare address, no content at any other path, or a   *)
(* failed or timed-out request.                                           *)
AddressResponses(address) ==
    (IF address.scheme = "" /\ address.hash \in 1..Len(pins)
     THEN {Found(address.hash)} ELSE {NotFound}) \cup {Failed}

(* fetchMetadataFromIPFS(ipfsUri) up to its await. *)
FetchMetadataFromIPFSCalled(ipfsUri) ==
    /\ ClientFree
    /\ handler.pc \in {"idle", "done"}
    /\ client' = [NoCall EXCEPT !.fn = "byAddress", !.pc = "awaiting",
                                !.arg = ipfsUri,
                                !.requested = <<RequestAddress(ipfsUri)>>]
    /\ UNCHANGED <<pageVars, pins, batchVars, gatewayVars>>

(* The await ends with the public read path's response. *)
FetchMetadataFromIPFSSettles(resp) ==
    /\ client.fn = "byAddress"
    /\ client.pc = "awaiting"
    /\ resp \in AddressResponses(client.requested[1])
    /\ client' = [client EXCEPT
                     !.pc = "settled",
                     !.delivered = <<resp>>,
                     !.outcome = <<FetchMetadataFromIPFS(resp)>>]
    /\ UNCHANGED <<pageVars, pins, batchVars, gatewayVars>>

InitGateway ==
    /\ PagesIdle
    /\ pins = <<>>
    /\ variant = "byId"
    /\ BatchIdle
    /\ PINATA_JWT \in BOOLEAN
    /\ GatewayIdle
    /\ ClientIdle

NextGateway ==
    \/ \E body \in Bodies : Post(body)
    \/ PinJsonResolved
    \/ \E pinned \in BOOLEAN : PinJsonRejected(pinned)
    \/ \E id \in CampaignIdValues : Get(id)
    \/ PinListResolved
    \/ ContentResolved
    \/ StoreReadRejected
    \/ Tick

SpecGateway == InitGateway /\ [][NextGateway]_vars

(* The browser's service calls against the gateway. *)
NextClient ==
    \/ \E metadata \in UploadArgs : UploadMetadataCalled(metadata)
    \/ \E metadata \in UploadArgs : UploadMetadataUnreachable(metadata)
    \/ \E lost \in BOOLEAN : UploadMetadataSettles(lost)
    \/ PinJsonResolved
    \/ \E pinned \in BOOLEAN : PinJsonRejected(pinned)
    \/ \E id \in BatchIds \cup {""} : FetchMetadataCalled(id)
    \/ \E id \in BatchIds \cup {""} : FetchMetadataUnreachable(id)
    \/ \E lost \in BOOLEAN : FetchMetadataSettles(lost)
    \/ PinListResolved
    \/ ContentResolved
    \/ StoreReadRejected
    \/ \E h \in 1..MaxPins : \E ipfsUri \in AddressForms(h) :
           FetchMetadataFromIPFSCalled(ipfsUri)
    \/ \E resp \in {Found(h) : h \in 1..MaxPins} \cup {NotFound, Failed} :
           FetchMetadataFromIPFSSettles(resp)

SpecClient == InitGateway /\ [][NextClient]_vars

(* ====================================================================== *)
(* Claims                                                                 *)
(* ====================================================================== *)

(* The record and the time a published detail view was derived from. *)
ReadRecord == frame[1].onChainData
ReadNow == frame[1].now
Published == campaign # <<>>

(* The status rule of StatusResolver, on the exact ledger amounts. *)
PriorityStatus(goal, raised, deadline, t) ==
    IF raised >= goal THEN "SUCCESSFUL"
    ELSE IF t >= deadline THEN "ENDED"
    ELSE "ACTIVE"

(* C1: for every ledger record with goal > 0 and every time now, the      *)
(* status of the detail view is SUCCESSFUL if raised >= goal, otherwise   *)
(* ENDED if now >= deadline, otherwise ACTIVE.                            *)
C1_StatusFollowsPriorityRule ==
    (Published /\ ReadRecord.goal > 0) =>
        campaign[1].status =
            PriorityStatus(ReadRecord.goal, ReadRecord.raisedAmount,
                           ReadRecord.deadline, ReadNow)

(* C2: a record with goal = 0, raised = 0 and now < deadline gives a view *)
(* with status ACTIVE, isActive true and progress 0.                      *)
C2_ZeroGoalIsActive ==
    (/\ Published
     /\ ReadRecord.goal = 0
     /\ ReadRecord.raisedAmount = 0
     /\ ReadNow < ReadRecord.deadline) =>
        /\ campaign[1].status = "ACTIVE"
        /\ campaign[1].isActive
        /\ FracEq(campaign[1].progress, Frac(0, 1))

(* C3: in every published view progress is a defined number in [0, 100],  *)
(* and it is 0 whenever goal = 0.                                         *)
C3_ProgressClamped ==
    Published =>
        /\ campaign[1].progress.den > 0
        /\ FracLeq(Frac(0, 1), campaign[1].progress)
        /\ FracLeq(campaign[1].progress, Frac(100, 1))
        /\ (ReadRecord.goal = 0 => FracEq(campaign[1].progress, Frac(0, 1)))

C3_Witness ==
    /\ Published
    /\ ReadRecord.goal = 0
    /\ ReadRecord.raisedAmount > 0

(* C4: for goal > 0 and raised >= goal progress is exactly 100, and for   *)
(* goal > 0 progress = 100 exactly when status = SUCCESSFUL.              *)
C4_ProgressHundredIffSuccessful ==
    (Published /\ ReadRecord.goal > 0) =>
        /\ (ReadRecord.raisedAmount >= ReadRecord.goal =>
                FracEq(campaign[1].progress, Frac(100, 1)))
        /\ (FracEq(campaign[1].progress, Frac(100, 1)) <=>
                campaign[1].status = "SUCCESSFUL")

C4_Witness ==
    /\ Published
    /\ ReadRecord.goal > 0
    /\ ReadRecord.raisedAmount > ReadRecord.goal
    /\ FracEq(campaign[1].progress, Frac(100, 1))

(* C5: in every view of the detail page and of the list page, isActive is *)
(* true exactly when status = ACTIVE.                                     *)
C5_IsActiveIffStatusActive ==
    /\ Published => (campaign[1].isActive <=> campaign[1].status = "ACTIVE")
    /\ \A i \in 1..Len(campaigns) :
           campaigns[i].isActive <=> campaigns[i].status = "ACTIVE"

C5_Witness ==
    /\ Published
    /\ campaign[1].status = "SUCCESSFUL"
    /\ ReadNow < ReadRecord.deadline
    /\ ~campaign[1].isActive

(* C6: for the same record and the same now, the list view reports the    *)
(* status and the isActive that the detail view derives.                  *)
C6_ListAgreesWithDetail ==
    \A i \in 1..Len(campaigns) :
        LET detail == DetailView(campaigns[i].id, listFrame[1].onChainData,
                                 listFrame[1].now, donorCount)
        IN  /\ campaigns[i].status = detail.status
            /\ campaigns[i].isActive = detail.isActive

(* C7: when the getCampaign read of an attempt fails, the attempt ends in *)
(* the error outcome and publishes no view.                               *)
C7_LedgerReadFailureIsFatal ==
    failedAt = "getCampaign" =>
        /\ pc = "done"
        /\ error # <<>>
        /\ campaign = <<>>
        /\ loading = FALSE

C7_Witness ==
    /\ failedAt = "getCampaign"
    /\ Len(ledger) = 1

(* C8: when getCampaign succeeds and getDonorCount fails, a view is still *)
(* published, with donorCount = 0, and there is no error outcome.         *)
C8_DonorCountFailureDegrades ==
    failedAt = "getDonorCount" =>
        /\ Published
        /\ campaign[1].donorCount = 0
        /\ error = <<>>

(* The field names of CampaignData. *)
CampaignDataFields ==
    {"id", "creator", "title", "description", "imageUrl", "videoUrl", "goal",
     "raised", "deadline", "donorCount", "isActive", "status", "progress"}

(* C9 as stated: a published view has title and description equal to the  *)
(* ledger-stored copies and empty imageUrl and videoUrl.                  *)
C9_FallbackIsLedgerCopy ==
    Published =>
        /\ campaign[1].title = ReadRecord.title
        /\ campaign[1].description = ReadRecord.description
        /\ campaign[1].imageUrl = ""
        /\ campaign[1].videoUrl = ""

(* C9 as amended: a published view has the ledger-stored title and        *)
(* description, or "Untitled Campaign" / "No description available" where *)
(* the ledger copy is empty, empty imageUrl and videoUrl, and every field *)
(* of CampaignData populated.                                             *)
C9_FallbackWithPlaceholders ==
    Published =>
        /\ campaign[1].title =
               (IF ReadRecord.title = "" THEN "Untitled Campaign"
                ELSE ReadRecord.title)
        /\ campaign[1].description =
               (IF ReadRecord.description = "" THEN "No description available"
                ELSE ReadRecord.description)
        /\ campaign[1].imageUrl = ""
        /\ campaign[1].videoUrl = ""
        /\ DOMAIN campaign[1] = CampaignDataFields
        /\ campaign[1].title # ""
        /\ campaign[1].description # ""
        /\ campaign[1].creator = ReadRecord.creator
        /\ campaign[1].goal.ether # Undefined
        /\ campaign[1].raised.ether # Undefined
        /\ campaign[1].donorCount # Undefined

C9_Witness ==
    /\ Published
    /\ metadataStore = <<>>
    /\ ReadRecord.description = ""
    /\ ReadRecord.title # ""

(* C10: every view built from a successful ledger read, on the detail    *)
(* page and on the list page, is preceded by a metadata lookup.           *)
C10_MetadataLookedUp ==
    /\ Published => storeReads > 0
    /\ campaigns # <<>> => storeReads > 0


(* ---------------------- claims on fetchMetadataBatch ------------------- *)

(* The mapping the current call accumulates and returns. *)
Returned == maps[results]
BatchReturned == batchPc = "returned"

(* The ids of the entries whose lookup came back with a record. *)
OkEntries == {i \in DOMAIN input : fetches[i].response.kind = "ok"}
OkIds == {input[i].id : i \in OkEntries}

(* Entry i's completion is processed in this step. *)
Completing(i) ==
    /\ i \in DOMAIN fetches
    /\ fetches[i].state = "responded"
    /\ i \in DOMAIN fetches'
    /\ fetches'[i].state = "settled"

(* C11: for any input and any combination of per-entry outcomes the batch *)
(* never raises, the key set of the returned mapping is exactly the set   *)
(* of input ids whose lookup succeeded with a record, and the completion  *)
(* of a failing or not-found entry leaves the mapping as it was.          *)
C11_KeysAreSuccessfulIds ==
    /\ [](batchPc \in {"idle", "awaiting", "returned"})
    /\ [](BatchReturned =>
            /\ DOMAIN Returned = OkIds
            /\ \A i \in DOMAIN fetches : fetches[i].promise = "fulfilled")
    /\ [][\A i \in 1..MaxBatch :
            (Completing(i) /\ fetches[i].response.kind # "ok")
                => maps'[results] = maps[results]]_vars

C11_Witness ==
    /\ BatchReturned
    /\ Len(input) = 2
    /\ input[1].id # input[2].id
    /\ fetches[1].response.kind = "ok"
    /\ fetches[2].response.kind \in {"notFound", "error"}
    /\ DOMAIN Returned = {input[1].id}

(* C12: the call returns only after every lookup it started has settled:  *)
(* in the returned state no entry's lookup is pending, and no step after  *)
(* the return changes the returned mapping.                               *)
C12_ReturnsAfterAllSettled ==
    /\ [](BatchReturned =>
            \A i \in DOMAIN fetches : fetches[i].state = "settled")
    /\ [][BatchReturned => maps'[results] = maps[results]]_vars

C12_Witness ==
    /\ BatchReturned
    /\ Len(completed) = 2
    /\ DOMAIN Returned # {}
    /\ prevCall = <<>>

(* C13: the lookup of every input entry is started before any entry's     *)
(* completion is processed: the step that starts a call leaves every      *)
(* entry's lookup pending and none completed, and no entry is ever left   *)
(* waiting for another entry's outcome.                                   *)
C13_AllStartedAtOnce ==
    /\ [][(batchPc # "awaiting" /\ batchPc' = "awaiting") =>
            /\ completed' = <<>>
            /\ \A i \in DOMAIN input' : /\ fetches'[i].state = "pending"
                                        /\ fetches'[i].requests = 1]_vars
    /\ [](\A i \in DOMAIN fetches : fetches[i].state # "unstarted")

C13_Witness ==
    /\ batchPc = "awaiting"
    /\ Len(input) = 2
    /\ completed = <<>>
    /\ \A i \in DOMAIN fetches : fetches[i].state = "pending"

(* The mapping the callbacks build when they complete in input order. *)
RECURSIVE InInputOrder(_)
InInputOrder(n) ==
    IF n = 0 THEN EmptyMap
    ELSE EntryCallback(InInputOrder(n - 1), input[n].id,
                       Lookup(fetches[n].response))

DistinctIds ==
    \A i, j \in DOMAIN input : input[i].id = input[j].id => i = j

(* The successful entry of id whose completion was processed last. *)
LastOk(id) ==
    LET P == {k \in DOMAIN completed :
                 completed[k] \in OkEntries /\ input[completed[k]].id = id}
    IN  completed[CHOOSE k \in P : \A j \in P : j <= k]

(* C14 as stated: for fixed per-entry outcomes the returned mapping is    *)
(* the same for every order in which the lookups complete, that is, the   *)
(* one built when they complete in input order.                           *)
C14_SameForEveryOrder ==
    BatchReturned => Returned = InInputOrder(Len(input))

(* C14 amended: for an input whose ids are pairwise distinct the returned *)
(* mapping is the same for every completion order; for any input no       *)
(* completion loses or overwrites the entry of a different id: an id is a *)
(* key exactly when one of its entries succeeded, and its value is the    *)
(* record of its successful entry that completed last.                    *)
C14_SameForEveryOrderOfDistinctIds ==
    BatchReturned =>
        /\ DistinctIds => Returned = InInputOrder(Len(input))
        /\ DOMAIN Returned = OkIds
        /\ \A id \in OkIds :
               Returned[id] = <<fetches[LastOk(id)].response.pin>>

C14_Witness ==
    /\ BatchReturned
    /\ DistinctIds
    /\ completed = <<2, 1>>
    /\ OkEntries = {1, 2}
    /\ DOMAIN Returned = {input[1].id, input[2].id}

(* The outcomes the entries of id came back with in a call. *)
OutcomesOf(inp, responses, id) ==
    {responses[i] : i \in {j \in DOMAIN inp : inp[j].id = id}}

CurrentResponses == [i \in DOMAIN fetches |-> fetches[i].response]

(* The current call repeats the previous one: identical input, the store  *)
(* unchanged since the previous call started, the same outcomes per id.   *)
RepeatsPreviousCall ==
    /\ BatchReturned
    /\ prevCall # <<>>
    /\ prevCall[1].input = input
    /\ Len(pins) = prevCall[1].pinsAtStart
    /\ \A id \in BatchIds :
           OutcomesOf(input, prevCall[1].responses, id)
               = OutcomesOf(input, CurrentResponses, id)

(* C15: two calls with identical inputs against an unchanged store, with  *)
(* the same outcomes per id, return mappings with identical key sets and  *)
(* identical values.                                                      *)
C15_RepeatedCallSameMapping ==
    RepeatsPreviousCall => maps[prevCall[1].returned] = Returned

C15_Witness ==
    /\ RepeatsPreviousCall
    /\ Len(input) = 2
    /\ OkEntries # {}
    /\ OkEntries # {1, 2}
    /\ DOMAIN maps[prevCall[1].returned] = OkIds

(* A call starts in this step. *)
CallStarts == batchPc # "awaiting" /\ batchPc' = "awaiting"

(* C16: no state is kept between calls: a call's mapping holds only ids   *)
(* of that call's input and only records its own lookups came back with,  *)
(* a call starts on a new empty mapping, and the mappings of earlier      *)
(* calls are never modified.                                              *)
C16_NoStateBetweenCalls ==
    /\ [](batchPc # "idle" =>
            \A id \in DOMAIN Returned :
                \E i \in OkEntries :
                    /\ input[i].id = id
                    /\ Returned[id] = <<fetches[i].response.pin>>)
    /\ [][CallStarts =>
            /\ results' \notin 1..Len(maps)
            /\ maps'[results'] = EmptyMap]_vars
    /\ [][\A k \in 1..Len(maps) :
            (k # results \/ CallStarts) => maps'[k] = maps[k]]_vars

C16_Witness ==
    /\ BatchReturned
    /\ prevCall # <<>>
    /\ \E id \in DOMAIN maps[prevCall[1].returned] :
           /\ id \notin DOMAIN Returned
           /\ \E i \in DOMAIN input : input[i].id = id
    /\ \E id \in DOMAIN maps[prevCall[1].returned] :
           \A i \in DOMAIN input : input[i].id # id

(* C17: no read is retried: during a call every input entry causes       *)
(* exactly one lookup request, also when that request fails or times     *)
(* out, and the count of an entry's requests never grows after the start. *)
C17_OneRequestPerEntry ==
    /\ [](\A i \in DOMAIN fetches : fetches[i].requests = 1)
    /\ [][~CallStarts =>
            \A i \in DOMAIN fetches :
                fetches'[i].requests = fetches[i].requests]_vars

C17_Witness ==
    /\ BatchReturned
    /\ \E i \in DOMAIN fetches : /\ fetches[i].response.kind = "error"
                                 /\ fetches[i].requests = 1
    /\ \E i \in DOMAIN fetches : fetches[i].response.kind = "notFound"

(* -------------------------- claims on the gateway ---------------------- *)

(* The handler of the given method has answered its request. *)
Answered(method) ==
    /\ handler.method = method
    /\ handler.pc = "done"
    /\ response # <<>>

(* No call went to the store for the request and the store is as it was. *)
StoreUntouched ==
    /\ handler.storeCalls = 0
    /\ Len(pins) = handler.pinsBefore

(* C18: with the credential configured, an upload request whose body      *)
(* lacks campaignId or lacks title (missing or empty) is answered with    *)
(* status 400 and no write call is issued to the store for it.            *)
C18_MissingFieldIsClientError ==
    (/\ PINATA_JWT
     /\ Answered("POST")
     /\ (Falsy(handler.request.campaignId) \/ Falsy(handler.request.title)))
        => /\ response[1].status = 400
           /\ StoreUntouched

(* C19: without the credential every upload request and every lookup      *)
(* request is answered with the 500 configuration error and no call goes  *)
(* to the store, also when the request is invalid as well.                *)
C19_ConfigurationErrorFirst ==
    ~PINATA_JWT =>
        /\ handler.pc \in {"idle", "done"}
        /\ StoreUntouched
        /\ pins = <<>>
        /\ (Answered("POST") \/ Answered("GET")) =>
               response[1] = ErrorReply(500, "Server configuration error")

C19_Witness ==
    /\ ~PINATA_JWT
    /\ Answered("POST")
    /\ handler.request.shape = "object"
    /\ handler.request.title = ""
    /\ response[1].status = 500

(* C20: for a valid upload request whose store write succeeds, exactly    *)
(* one record is written, its createdAt is the server's time at the       *)
(* request whatever createdAt the payload carries, and the response       *)
(* carries the store's hash and ipfsUri = "ipfs://" followed by it.       *)
C20_UploadStampsAndReturnsAddress ==
    (Answered("POST") /\ response[1].status = 200) =>
        /\ handler.storeCalls = 1
        /\ Len(pins) = handler.pinsBefore + 1
        /\ pins[Len(pins)] =
               [campaignId |-> handler.request.campaignId,
                title |-> handler.request.title,
                createdAt |-> handler.receivedAt]
        /\ response[1].ipfsHash = Len(pins)
        /\ response[1].ipfsUri =
               [scheme |-> "ipfs://", hash |-> response[1].ipfsHash]

C20_Witness ==
    /\ Answered("POST")
    /\ response[1].status = 200
    /\ handler.request.createdAt \notin {Undefined, handler.receivedAt}
    /\ now > handler.receivedAt
    /\ pins[Len(pins)].createdAt = handler.receivedAt

(* ------------------- claims on the single service calls ---------------- *)

(* The browser's call of fn has ended. *)
Settled(fn) == client.fn = fn /\ client.pc = "settled"

(* C21: uploadMetadataToPinata has exactly two outcomes: it returns the   *)
(* ipfsUri of a delivered success response, or it throws the one fixed    *)
(* error, which is the same for a 400, a 500 and a network failure and    *)
(* carries nothing of the server's error or details.                      *)
C21_UploadReturnsUriOrFixedError ==
    Settled("upload") =>
        \/ /\ client.delivered # <<>>
           /\ client.delivered[1].status = 200
           /\ client.outcome[1] = Returns(client.delivered[1].ipfsUri)
        \/ /\ client.delivered = <<>> \/ client.delivered[1].status # 200
           /\ client.outcome[1] = Throws("Failed to upload metadata to IPFS")

C21_Witness ==
    /\ Settled("upload")
    /\ client.delivered # <<>>
    /\ client.delivered[1].status = 500
    /\ client.delivered[1].details = StoreFailureDetail
    /\ client.outcome[1].threw

(* The replies and the lost connection that are failures of the query. *)
QueryFailures ==
    {<<>>,
     <<ErrorReply(500, "Server configuration error")>>,
     <<CaughtReply("Failed to fetch metadata", StoreFailureDetail)>>}

(* C22: fetchMetadataByCampaignId never raises, and its outcome for an id *)
(* with no record (404) differs from its outcome for every failed query   *)
(* (server error, network error, timeout).                                *)
C22_NotFoundDistinctFromFailure ==
    Settled("lookup") =>
        /\ ~client.outcome[1].threw
        /\ (client.delivered # <<>> /\ client.delivered[1].status = 404) =>
               \A failure \in QueryFailures :
                   FetchMetadataByCampaignId(ReplyKind(failure))
                       # client.outcome[1]

(* A lookup request that reaches the index query: the credential is set   *)
(* and the request carries a campaignId.                                  *)
LookupAnswered ==
    /\ PINATA_JWT
    /\ Answered("GET")
    /\ ~Falsy(handler.request.campaignId)

(* The answer matches the outcome of the store calls: 200 with the        *)
(* newest pinned record after two successful reads, 404 after a           *)
(* successful index query with zero records, 500 after a failed read.     *)
AnswersByOutcome ==
    LET r == response[1]
        id == handler.request.campaignId
    IN  /\ r.status \in {200, 404, 500}
        /\ r.status = 200 <=> handler.storeResults = <<"ok", "ok">>
        /\ r.status = 404 <=>
               (handler.storeResults = <<"ok">> /\ PinsOf(id) = {})
        /\ r.status = 500 <=>
               (handler.storeResults \in {<<"failed">>, <<"ok", "failed">>})
        /\ r.status = 200 =>
               /\ r.ipfsHash = Newest(PinsOf(id))
               /\ r.ipfsUri = [scheme |-> "ipfs://", hash |-> r.ipfsHash]
               /\ r.metadata = <<pins[r.ipfsHash]>>
        /\ r.status = 500 => r.error = "Failed to fetch metadata"

(* C23 as stated: the lookup gateway answers every request with exactly   *)
(* one of 200 (record found and read), 404 (index query succeeded with    *)
(* zero records) or 500 (index query or content read failed).             *)
C23_EveryRequestAnsweredByOutcome ==
    (PINATA_JWT /\ Answered("GET")) => AnswersByOutcome

(* C23: with the credential configured, the lookup gateway answers every  *)
(* request that carries a campaignId with exactly one of: 200 with        *)
(* {ipfsHash, ipfsUri = "ipfs://" + ipfsHash, metadata} when the index    *)
(* has a record and its content was read, 404 when the index query        *)
(* succeeded with zero records, 500 when the index query or the content   *)
(* read failed; never 404 for a failure, never a failure for not-found.   *)
C23_LookupAnswersByOutcome ==
    LookupAnswered => AnswersByOutcome

C23_Witness ==
    /\ LookupAnswered
    /\ handler.storeResults = <<"ok", "failed">>
    /\ response[1].status = 500
    /\ PinsOf(handler.request.campaignId) # {}

(* C24: a lookup by content address requests the bare address h whether   *)
(* it was given "ipfs://" + h or h, so both forms meet the same responses *)
(* and give the same outcome; on success the object stored at h is        *)
(* returned, and every failure is the one generic fetch error.            *)
C24_BothAddressFormsAlike ==
    Settled("byAddress") =>
        LET h == client.arg.hash
            resp == client.delivered[1]
            outcome == client.outcome[1]
        IN  /\ client.requested = <<BareAddress(h)>>
            /\ \A uri \in AddressForms(h) :
                   /\ RequestAddress(uri) = client.requested[1]
                   /\ resp \in AddressResponses(RequestAddress(uri))
                   /\ FetchMetadataFromIPFS(resp) = outcome
            /\ IF resp.kind = "ok"
               THEN /\ h \in 1..Len(pins)
                    /\ outcome = [threw |-> FALSE, message |-> "",
                                  value |-> <<h>>]
               ELSE outcome = [threw |-> TRUE,
                               message |-> "Failed to fetch metadata from IPFS",
                               value |-> <<>>]

C24_Witness ==
    /\ Settled("byAddress")
    /\ client.arg = IpfsUri(1)
    /\ ~client.outcome[1].threw
    /\ client.outcome[1].value = <<1>>

(* A step of building a view or of fetchMany: the state of the details    *)
(* page, of the list page or of the batch changes.                        *)
ReadStep ==
    \/ detailVars' # detailVars
    \/ listVars' # listVars
    \/ batchVars' # batchVars

(* C25: building the detail view or the list view and running fetchMany   *)
(* only read: no step of them, whatever its outcome, changes the ledger   *)
(* records, the donor count or the contents of the metadata store.        *)
C25_ReadsLeaveLedgerAndStore ==
    [][ReadStep => UNCHANGED <<ledger, donorCount, metadataStore, pins>>]_vars

C25_Witness ==
    /\ listPc = "done"
    /\ campaigns # <<>>
    /\ batchPc = "returned"
    /\ maps[results] # EmptyMap
    /\ Len(ledger) = 1
    /\ metadataStore # <<>>
    /\ Len(pins) >= 1

(* The status fields of the details page as a function of goal, raised,   *)
(* deadline (ledger values) and now alone.                                *)
DetailDerivation(goal, raised, deadline, t) ==
    LET goalReached == GoalReached(FormatEther(raised), FormatEther(goal))
        isExpired == IsExpired(t, deadline)
    IN  [status |-> DetailStatus(goalReached, isExpired),
         isActive |-> DetailIsActive(goalReached, isExpired),
         progress |-> Progress(FormatEther(raised), FormatEther(goal))]

(* The status fields of the list page as a function of deadline and now. *)
ListDerivation(deadline, t) ==
    [status |-> ListStatus(IsExpired(t, deadline)),
     isActive |-> ListIsActive(IsExpired(t, deadline))]

(* A derivation's result is well formed: one of the status values, a      *)
(* boolean, and a progress that is a number from 0 to 100.                *)
WellFormed(r) ==
    /\ r.status \in {"ACTIVE", "ENDED", "SUCCESSFUL"}
    /\ r.isActive \in BOOLEAN
    /\ r.progress.den > 0
    /\ FracLeq(Frac(0, 1), r.progress)
    /\ FracLeq(r.progress, Frac(100, 1))

ReadOk == {i \in DOMAIN listing.requests : listing.requests[i].view # <<>>}

(* While Promise.all is awaited a request is under way or done for every  *)
(* id 0..total-1 of the count that was read.                              *)
AllReadsStarted ==
    listPc = "promiseAll" =>
        /\ listing.total = <<Len(listing.requests)>>
        /\ Len(listing.requests) > 0
        /\ \A i \in DOMAIN listing.requests :
               listing.requests[i].state \in {"pending", "returned"}

(* The list shows exactly the campaigns read successfully, each with the  *)
(* view its request returned, newest first.                               *)
ShownNewestFirst ==
    (listPc = "done" /\ listing.total # <<>> /\ listing.total # <<0>>) =>
        /\ listError = <<>>
        /\ ~listLoading
        /\ Len(campaigns) = Cardinality(ReadOk)
        /\ \A i \in ReadOk :
               \E k \in DOMAIN campaigns :
                   /\ campaigns[k] = listing.requests[i].view[1]
                   /\ campaigns[k].id = i - 1
        /\ \A k \in 1..(Len(campaigns) - 1) :
               campaigns[k].id > campaigns[k + 1].id

(* No campaigns is an empty list, not an error. *)
EmptyListNoError ==
    (listPc = "done" /\ listing.total = <<0>>) =>
        campaigns = <<>> /\ listError = <<>> /\ ~listLoading

(* C27 as stated: the reads of ids 0..total-1 start in parallel, failed   *)
(* reads are left out and the others shown in descending id order, no     *)
(* campaigns gives an empty list, and the list is in the error state only *)
(* when the count read failed.                                            *)
C27_ErrorOnlyFromCountRead ==
    /\ AllReadsStarted
    /\ ShownNewestFirst
    /\ EmptyListNoError
    /\ listError # <<>> => listError = <<CountReverted>>

(* C27: the reads of ids 0..total-1 start in parallel, failed reads are   *)
(* left out and every other campaign is shown, in strictly descending id  *)
(* order whatever order the reads complete in; no campaigns gives an      *)
(* empty list without error; the list is in the error state only when     *)
(* obtaining the contract or the count read failed, before any            *)
(* per-campaign read.                                                     *)
C27_ListShowsSuccessfulReadsNewestFirst ==
    /\ AllReadsStarted
    /\ ShownNewestFirst
    /\ EmptyListNoError
    /\ listError # <<>> =>
           /\ listError[1] \in {ContractUnavailable, CountReverted}
           /\ listing = NoListing

C27_Witness ==
    /\ listPc = "done"
    /\ listing.total = <<3>>
    /\ listing.settled = <<3, 1, 2>>
    /\ listing.requests[2].view = <<>>
    /\ Len(campaigns) = 2
    /\ campaigns[1].id = 2
    /\ campaigns[2].id = 0

(* Every createCampaign transaction submitted carries a goal above 0 and  *)
(* a deadline later than the clock at its confirmation.                   *)
SubmittedValid ==
    \A k \in DOMAIN form.submitted :
        /\ form.submitted[k].goalWei > 0
        /\ form.submitted[k].deadlineTimestamp > form.submitted[k].at

(* The confirm button pressed with the wallet connected and no creation   *)
(* executing: the modal closes.                                           *)
ConfirmStep ==
    /\ form.pc = "idle"
    /\ form.showConfirmModal
    /\ ~form.walletMissing
    /\ ~form.isExecuting
    /\ ~form'.showConfirmModal

(* C28: the creation flow submits createCampaign only with goal > 0 and   *)
(* deadline > now at the moment of confirmation; a confirmation at which  *)
(* the goal or the deadline is not valid submits nothing, leaves the      *)
(* ledger alone and shows an error message.                               *)
C28_SubmitsOnlyValidGoalAndDeadline ==
    /\ []SubmittedValid
    /\ [][(ConfirmStep /\ ~ValidateBoth(form, now).ok) =>
             /\ form'.submitted = form.submitted
             /\ form'.pc = "idle"
             /\ form'.errorMessage = ValidateBoth(form, now).message
             /\ form'.errorMessage # ""
             /\ ledger' = ledger]_vars

C28_Witness ==
    /\ form.pc = "idle"
    /\ form.confirmed = "invalid"
    /\ form.submitted = <<>>
    /\ form.errorMessage = "Deadline must be a valid future date."
    /\ ~form.showConfirmModal
    /\ form.deadline.kind = "date"
    /\ form.deadline.timestamp = now

(* The ledger holds the campaign of the extracted id, as submitted. *)
CreatedOnLedger ==
    /\ form.receipt = "mined"
    /\ form.campaignId # <<>>
    /\ form.campaignId[1] < Len(ledger)
    /\ ledger[form.campaignId[1] + 1].title = Tx.title
    /\ ledger[form.campaignId[1] + 1].goal = Tx.goalWei
    /\ ledger[form.campaignId[1] + 1].deadline = Tx.deadlineTimestamp

(* No upload has been issued: no call, no request at the gateway, no pin. *)
NoUpload ==
    /\ client = NoCall
    /\ handler = HandlerIdle
    /\ pins = <<>>

(* C29: a metadata upload is issued only after createCampaign has         *)
(* succeeded and a campaignId was extracted from a CampaignCreated event  *)
(* of its receipt, and it carries that id; when the creation fails or no  *)
(* CampaignCreated event is found, no upload is issued.                   *)
C29_UploadOnlyForCreatedCampaign ==
    /\ client # NoCall =>
           /\ CreatedOnLedger
           /\ client.fn = "upload"
           /\ client.arg.campaignId = IdText(form.campaignId[1])
           /\ client.arg.title = Tx.title
    /\ (form.receipt # "mined" \/ form.campaignId = <<>>) => NoUpload
    /\ handler.method # "none" => handler.request = client.arg

C29_Witness ==
    /\ client.fn = "upload"
    /\ client.pc = "awaiting"
    /\ form.campaignId = <<1>>
    /\ client.arg.campaignId = "1"
    /\ Len(ledger) = 3
    /\ ledger[2].title = "Reef"

(* The flow has ended after an upload that failed. *)
LeftAfterFailedUpload ==
    /\ form.pc = "left"
    /\ client.fn = "upload"
    /\ client.outcome[1].threw

(* The awaited upload failed, and the flow went on as after a success:    *)
(* form reset, list page pushed, no error message, nothing processing,    *)
(* the ledger record in place.                                            *)
FailedUploadAbsorbed ==
    LeftAfterFailedUpload =>
        /\ client.pc = "settled"
        /\ CreatedOnLedger
        /\ form.route = "/campaigns"
        /\ form.title = "" /\ form.goal = "" /\ form.deadline = NoDate
        /\ form.errorMessage = ""
        /\ ~form.isProcessing /\ ~form.isExecuting /\ ~form.showConfirmModal

(* From the successful creation on, no error message is shown and the     *)
(* flow ends reset on the list page.                                      *)
NoErrorAfterCreation ==
    /\ form.receipt = "mined" => form.errorMessage = ""
    /\ form.pc = "left" =>
           /\ form.receipt = "mined"
           /\ form.route = "/campaigns"
           /\ form.title = "" /\ form.goal = "" /\ form.deadline = NoDate

(* A failed creation shows its error and keeps the form and the page. *)
CreationFailureShown ==
    form.receipt = "rejected" =>
        /\ form.pc = "idle"
        /\ form.route = "/create"
        /\ form.errorMessage # "" \/ form.showConfirmModal
        /\ ~form.isProcessing /\ ~form.isExecuting

(* The step on which createCampaign is rejected. *)
RejectionStep == form.pc = "creating" /\ form'.receipt = "rejected"

(* C30 as stated: a failed upload after a successful creation is          *)
(* absorbed and leaves a ledger record with no metadata record.           *)
C30_FailedUploadLeavesNoRecord ==
    /\ FailedUploadAbsorbed
    /\ LeftAfterFailedUpload => PinsOf(client.arg.campaignId) = {}

(* C30: a failed upload after a successful creation is absorbed: the form *)
(* is reset and the list page pushed with no error shown; the ledger      *)
(* record is left without a metadata record unless the store pinned the   *)
(* record and only the answer failed or was lost.  Only a rejected        *)
(* creation sets the error message and skips reset and navigation.        *)
C30_FailedUploadAbsorbed ==
    /\ [](/\ FailedUploadAbsorbed
          /\ NoErrorAfterCreation
          /\ CreationFailureShown
          /\ LeftAfterFailedUpload =>
                 \/ PinsOf(client.arg.campaignId) = {}
                 \/ /\ Len(pins) = 1
                    /\ handler.storeCalls = 1
                    /\ \/ handler.storeResults = <<"failed">>
                       \/ client.delivered = <<>>)
    /\ [][RejectionStep =>
             /\ form'.errorMessage # ""
             /\ form'.title = form.title
             /\ form'.goal = form.goal
             /\ form'.deadline = form.deadline
             /\ form'.route = "/create"
             /\ form'.pc = "idle"
             /\ ledger' = ledger]_vars

C30_Witness ==
    /\ LeftAfterFailedUpload
    /\ client.delivered # <<>>
    /\ client.delivered[1].status = 500
    /\ PinsOf(client.arg.campaignId) = {}
    /\ form.errorMessage = ""
    /\ form.route = "/campaigns"

(* The createCampaign calls awaited and not yet settled. *)
InFlight == Len(form.submitted) - form.settled

(* executeCreateCampaign is between its first await and its finally. *)
Executing == form.pc \in {"creating", "upload"}

(* A step that hands a transaction to actions.createCampaign. *)
SubmitStep == Len(form'.submitted) > Len(form.submitted)

(* A step on which a confirmation is ignored. *)
IgnoredStep == form'.confirmed = "ignored" /\ form.confirmed # "ignored"

(* A step on which executeCreateCampaign leaves its try: by the outer     *)
(* catch, or past the upload, or with no campaignId.                      *)
SettleStep == Executing /\ form'.pc \notin {"creating", "upload"}

(* C31: at most one createCampaign submission is in flight at a time.  A  *)
(* confirmation arriving while one is in flight is ignored: it submits    *)
(* nothing and changes nothing of the flow.  The in-flight guard          *)
(* (isExecutingRef) is held exactly while executeCreateCampaign is past   *)
(* its submission and is released when it settles, by the success path    *)
(* and by the failure path alike, so that a later confirmation submits    *)
(* again.                                                                 *)
C31_OneCreateInFlight ==
    /\ [](/\ InFlight \in {0, 1}
          /\ InFlight = 1 => isExecutingRef
          /\ isExecutingRef <=> Executing)
    /\ [][SubmitStep =>
             /\ ~isExecutingRef
             /\ InFlight = 0
             /\ Len(form'.submitted) = Len(form.submitted) + 1
             /\ form'.isExecuting
             /\ form'.confirmed = "submitted"]_vars
    /\ [][IgnoredStep =>
             /\ isExecutingRef
             /\ form' = [form EXCEPT !.confirmed = "ignored"]
             /\ ledger' = ledger
             /\ UNCHANGED serviceVars]_vars
    /\ [][SettleStep =>
             /\ ~form'.isExecuting
             /\ ~form'.isProcessing
             /\ form'.receipt \in {"mined", "rejected"}
             /\ form'.pc = IF form'.receipt = "rejected" THEN "idle"
                           ELSE "left"]_vars

(* A second transaction in flight after the first was rejected, and a     *)
(* confirmation ignored while the second is in flight.                    *)
C31_Witness ==
    /\ Len(form.submitted) = 2
    /\ form.settled = 1
    /\ form.pc = "creating"
    /\ form.isExecuting
    /\ form.confirmed = "ignored"
    /\ ledger = <<>>

(* The donate calls awaited and not yet settled. *)
DonationsInFlight == Len(donation.submitted) - donation.settled

(* Every donate transaction submitted carries an amount text that is a    *)
(* decimal number above 0, and that amount in wei.                        *)
DonatedAmountsPositive ==
    \A k \in DOMAIN donation.submitted :
        /\ ParseFloat(donation.submitted[k].amount) # <<>>
        /\ ParseFloat(donation.submitted[k].amount)[1] > 0
        /\ ParseEther(donation.submitted[k].amount) =
               <<donation.submitted[k].amountWei>>
        /\ donation.submitted[k].amountWei > 0

(* A step that hands a transaction to actions.donate. *)
DonationSubmitStep == Len(donation'.submitted) > Len(donation.submitted)

(* A step on which the awaited donate settles. *)
DonationSettleStep == donation.pc = "donating" /\ donation'.pc # "donating"

(* The entered amount is not a decimal number above 0. *)
AmountRefused ==
    \/ ParseFloat(donation.donationAmount) = <<>>
    \/ ParseFloat(donation.donationAmount)[1] <= 0
    \/ ParseEther(donation.donationAmount) = <<>>

(* The confirm button pressed in the open modal with such an amount,      *)
(* no donation executing and the wallet's actions at hand.                *)
RefusedConfirmStep ==
    /\ ViewRendered
    /\ donation.showDonateModal
    /\ ~donation.isExecuting
    /\ donation.actions
    /\ AmountRefused
    /\ donation' # donation
    /\ donation'.showDonateModal
    /\ donation'.donationAmount = donation.donationAmount

(* C32: a donate transaction is submitted only when a campaign view is    *)
(* loaded and the entered amount is a number strictly greater than 0, for *)
(* the campaign of that view; at most one donate submission is in flight  *)
(* at a time; the in-flight guard is held exactly while the donate call   *)
(* is awaited and is released when it settles, resolved or rejected; a    *)
(* confirmation with a refused amount sets an error, submits nothing and  *)
(* leaves the guard unset.                                                *)
C32_DonateGuarded ==
    /\ [](/\ DonationsInFlight \in {0, 1}
          /\ donation.isExecuting <=> donation.pc = "donating"
          /\ donation.isExecuting => donation.isDonating
          /\ DonatedAmountsPositive)
    /\ [][DonationSubmitStep =>
             /\ campaign # <<>>
             /\ ~donation.isExecuting
             /\ DonationsInFlight = 0
             /\ donation'.submitted =
                    Append(donation.submitted,
                           [id |-> campaign[1].id,
                            amount |-> donation.donationAmount,
                            amountWei |->
                                ParseEther(donation.donationAmount)[1]])
             /\ donation'.isExecuting]_vars
    /\ [][DonationSettleStep =>
             /\ ~donation'.isExecuting
             /\ ~donation'.isDonating
             /\ donation'.settled = donation.settled + 1]_vars
    /\ [][RefusedConfirmStep =>
             /\ donation'.donationError # ""
             /\ ~donation'.isExecuting
             /\ donation'.pc = "idle"
             /\ donation'.submitted = donation.submitted
             /\ ledger' = ledger]_vars

(* A second donation in flight after the first was rejected, and a        *)
(* confirmation ignored while the second is in flight.                    *)
C32_Witness ==
    /\ Len(donation.submitted) = 2
    /\ donation.settled = 1
    /\ donation.pc = "donating"
    /\ donation.isExecuting
    /\ donation.confirmed = "ignored"
    /\ campaign # <<>>
    /\ ledger[1].raisedAmount = 0

(* Every fetchCampaign call started has reached its finally. *)
AllLoadsSettled ==
    /\ loads.started # <<>>
    /\ ~LoadPending

(* The call started last, for the id requested last, published a view. *)
LatestLoadSucceeded ==
    Load(Len(loads.started)).outcome = "view"

(* C33: when the requested campaign id changes while an earlier load is   *)
(* pending, the view shown once all loads have settled is the one of the  *)
(* latest requested id (a late completion of the earlier load does not    *)
(* overwrite the newer result), and loading is false only when no load is *)
(* pending.                                                               *)
C33_LatestRequestedIdShown ==
    /\ (AllLoadsSettled /\ LatestLoadSucceeded) =>
           /\ campaign # <<>>
           /\ <<campaign[1].id>> = loads.campaignId
    /\ ~loading => ~LoadPending

(* The status and isActive fetchCampaign derives from a read of campaign  *)
(* 0 at this moment.                                                      *)
DetailRead ==
    LET goal == FormatEther(ledger[1].goal)
        raised == FormatEther(RaisedValue(ledger[1]))
        isExpired == IsExpired(now, ledger[1].deadline)
        goalReached == GoalReached(raised, goal)
    IN  [status |-> DetailStatus(goalReached, isExpired),
         isActive |-> DetailIsActive(goalReached, isExpired)]

(* The status and isActive fetchSingleCampaign derives from a read of     *)
(* campaign 0 at this moment.                                             *)
ListRead ==
    LET isExpired == IsExpired(now, ledger[1].deadline)
    IN  [status |-> ListStatus(isExpired),
         isActive |-> ListIsActive(isExpired)]

(* The later of two reads does not go back: not to ACTIVE from ENDED or   *)
(* SUCCESSFUL, not away from SUCCESSFUL, not to isActive from not.        *)
NoRegress(before, after) ==
    /\ before.status # "ACTIVE" => after.status # "ACTIVE"
    /\ before.status = "SUCCESSFUL" => after.status = "SUCCESSFUL"
    /\ ~before.isActive => ~after.isActive

(* The ledger guarantees and the clock, on every step of the model. *)
LedgerGuarantees ==
    [][ledger # <<>> =>
          /\ Len(ledger') = Len(ledger)
          /\ ledger'[1].goal = ledger[1].goal
          /\ ledger'[1].deadline = ledger[1].deadline
          /\ RaisedValue(ledger'[1]) >= RaisedValue(ledger[1])
          /\ now' >= now]_vars

(* Successive reads by the details page do not go back. *)
DetailReadsNeverRegress ==
    [][ledger # <<>> => NoRegress(DetailRead, DetailRead')]_vars

(* Successive reads by the list page do not go back. *)
ListReadsNeverRegress ==
    [][ledger # <<>> => NoRegress(ListRead, ListRead')]_vars

(* C34: with goal and deadline immutable, raised and the clock            *)
(* non-decreasing, the status derived on successive reads of one campaign *)
(* never returns to ACTIVE after ENDED or SUCCESSFUL and never leaves     *)
(* SUCCESSFUL, and isActive once false stays false: whichever of          *)
(* fetchCampaign and fetchSingleCampaign reads first and whichever reads  *)
(* next.                                                                  *)
C34_StatusNeverRegresses ==
    [][ledger # <<>> =>
          \A before \in {DetailRead, ListRead} :
              \A after \in {DetailRead', ListRead'} :
                  NoRegress(before, after)]_vars

====
